---- MODULE Spec2Model ----
(***************************************************************************)
(* State-machine model of the autonomous research agent.                   *)
(*                                                                         *)
(*   Spec     ResearchWorkflow.execute (src/src/phase3_advanced.py): the   *)
(*            stage loop, the stage transition functions, the checkpoint   *)
(*            files under /tmp and the engine-level exception handler.     *)
(*   SpecMM   ModelManager (src/src/autonomous_agent/models/               *)
(*            model_manager.py): the registry of configurations, the map   *)
(*            of loaded backends and callers running on several threads.   *)
(*   SpecMMSeq   the ModelManager with one caller at a time.               *)
(*   SpecCache   CacheManager (src/src/memory.py) and the clock.           *)
(*   SpecScrape  DataScraper.scrape_all (src/src/scraper.py) with its      *)
(*            adapters and the WebSearcher (src/src/web_search.py).        *)
(*   SpecAnalyze ResearchAnalyzer.analyze (src/src/analyzer.py).           *)
(*                                                                         *)
(* Optional values (Python None) are sets with at most one element:        *)
(* None is {} and a value v is {v}.  Scores are hundredths (0.7 is 70).    *)
(***************************************************************************)
EXTENDS Integers, Sequences, FiniteSets, TLC

VARIABLES
    state,        \* ResearchWorkflow.state: the AgentState of the current run
    wpc,          \* position of execute: "idle", "loop", "returned", "escaped"
    files,        \* /tmp/checkpoint_<stage>.json, by stage value
    run,          \* number of execute calls made so far on this workflow
    ntrans,       \* transition functions invoked in the current run
    loopbacks,    \* evaluating -> planning steps taken in the current run
    lastEvent,    \* what the last loop iteration did
    configs,      \* ModelManager.configs: registered descriptors, in insertion order
    models,       \* ModelManager.models: the loaded backend of each name, if any
    th,           \* each calling thread's current call and its position in it
    callers,      \* the threads that call the ModelManager
    created,      \* backend instances constructed so far, per name
    calls,        \* ModelManager calls started so far
    cache_dir,    \* CacheManager.cache_dir: the content of each cache file, if any
    ttl,          \* CacheManager.ttl, in clock ticks
    now,          \* datetime.now(), in clock ticks
    cret,         \* the last CacheManager call and what it returned
    lastSet,      \* per key, the last set since the last clear: value and time
    nops,         \* CacheManager calls made so far
    web_search,   \* DataScraper.web_search is a searcher (TRUE) or None (FALSE)
    sreq,         \* the focus and depth of the current scrape_all call
    spc,          \* position of scrape_all: the adapter to call next
    results,      \* scrape_all's results: the items of each category
    failed,       \* the adapters whose request failed in the current call
    invoked,      \* the adapters scrape_all has called in the current call
    groq_client,         \* ResearchAnalyzer.groq.client is set
    gemini_model,        \* ResearchAnalyzer.gemini.model is set
    huggingface_client,  \* ResearchAnalyzer.huggingface.client is set
    alast,        \* the last ResearchAnalyzer.analyze call and what it gave
    feedback_history,  \* ResearchAgent.feedback_history
    slast,        \* the last get_statistics call: the history then, and its result
    qlast,        \* the last _analyze_query_type call: the query and its type
    traces,       \* ObservabilityManager.traces
    metrics,      \* ObservabilityManager.metrics
    errors,       \* ObservabilityManager.errors
    monitors,     \* the PerformanceMonitor blocks entered and not yet left, innermost last
    clock,        \* time.time() in milliseconds
    exits,        \* history: the blocks left so far, each with its own trace
    ctext,        \* chunk_text: text
    chunk_size,   \* chunk_text: chunk_size
    overlap,      \* chunk_text: overlap
    cstart,       \* chunk_text: start
    chunks,       \* chunk_text: chunks
    cstarts,      \* history: the values of start at which a pass of the loop began
    cpc           \* chunk_text: where the call stands

wfVars == <<state, wpc, files, run, ntrans, loopbacks, lastEvent>>

mmVars == <<configs, models, th, callers, created, calls>>

cmVars == <<cache_dir, ttl, now, cret, lastSet, nops>>

dsVars == <<web_search, sreq, spc, results, failed, invoked>>

raVars == <<groq_client, gemini_model, huggingface_client, alast>>

agVars == <<feedback_history, slast, qlast>>

obVars == <<traces, metrics, errors, monitors, clock, exits>>

ctVars == <<ctext, chunk_size, overlap, cstart, chunks, cstarts, cpc>>

vars == <<wfVars, mmVars, cmVars, dsVars, raVars, agVars, obVars, ctVars>>

\* What the actions of one component leave alone
exceptWf == <<mmVars, cmVars, dsVars, raVars, agVars, obVars, ctVars>>

exceptMM == <<wfVars, cmVars, dsVars, raVars, agVars, obVars, ctVars>>

exceptCM == <<wfVars, mmVars, dsVars, raVars, agVars, obVars, ctVars>>

exceptDS == <<wfVars, mmVars, cmVars, raVars, agVars, obVars, ctVars>>

exceptRA == <<wfVars, mmVars, cmVars, dsVars, agVars, obVars, ctVars>>

exceptAG == <<wfVars, mmVars, cmVars, dsVars, raVars, obVars, ctVars>>

exceptOB == <<wfVars, mmVars, cmVars, dsVars, raVars, agVars, ctVars>>

exceptCT == <<wfVars, mmVars, cmVars, dsVars, raVars, agVars, obVars>>

----------------------------------------------------------------------------
(* Bounds of the model *)

MaxRuns == 1
MaxItems == 1
MaxCalls == 4
MaxTime == 3
MaxOps == 4
MaxResponse == 40
MaxWords == 2
MaxBoundRuns == 3
MaxTraces == 3
MaxClock == 1
MaxText == 6
MaxChunkSize == 5
MaxFeedback == 3

----------------------------------------------------------------------------
(* Values *)

None == {}

Some(v) == {v}

TheValue(o) == CHOOSE v \in o : TRUE

\* WorkflowState (enum values)
INIT == "initializing"
PLANNING == "planning"
COLLECTING == "collecting_data"
ANALYZING == "analyzing"
SYNTHESIZING == "synthesizing"
EVALUATING == "evaluating"
REFINING == "refining"
COMPLETE == "complete"
FAILED == "failed"

WorkflowState ==
    {INIT, PLANNING, COLLECTING, ANALYZING, SYNTHESIZING, EVALUATING,
     REFINING, COMPLETE, FAILED}

Terminal == {COMPLETE, FAILED}

\* Inputs of execute
Queries == {"q1", "q2"}

Configs == {"dict", "not_a_dict"}

\* Categories of a collected result set, each with 0..MaxItems items.
\* A result set is a set of <<category, item count>> pairs.
Categories == {"papers", "news"}

DataValues ==
    { {<<c, f[c]>> : c \in Categories} : f \in [Categories -> 0..MaxItems] }

RECURSIVE SumCounts(_)
SumCounts(d) ==
    IF d = {} THEN 0
    ELSE LET p == CHOOSE x \in d : TRUE
         IN  p[2] + SumCounts(d \ {p})

\* overall_score values drawn for the evaluator, in hundredths
Scores == {0, 50, 70}

----------------------------------------------------------------------------
(* AgentState *)

NoMetadata ==
    [plan |-> None, data_stats |-> None, evaluation |-> None,
     refinement_count |-> None]

\* state.metadata.get(key, default) on an optional entry
MetadataGet(entry, default) == IF entry = None THEN default ELSE TheValue(entry)

\* ResearchWorkflow.execute: the AgentState built before the loop
InitialState(query, config) ==
    [query |-> query,
     config |-> config,
     current_stage |-> INIT,
     data |-> {},
     analysis |-> None,
     report |-> None,
     quality_score |-> None,
     errors |-> <<>>,
     metadata |-> NoMetadata]

\* AgentState.to_dict: every field, the stage by its value
to_dict(s) == s

\* Python truthiness of an optional number: None and 0 are falsy
Truthy(o) == o # None /\ TheValue(o) # 0

----------------------------------------------------------------------------
(* Collaborator calls: what a stage's external call did *)

NoCall == [raised |-> FALSE, value |-> None, msg |-> ""]

Returned(v) == [raised |-> FALSE, value |-> Some(v), msg |-> ""]

Raised(m) == [raised |-> TRUE, value |-> None, msg |-> m]

CollabOutcomes(stage) ==
    CASE stage = PLANNING ->
           {Raised("collect_data failed")} \cup {Returned(d) : d \in DataValues}
      [] stage = COLLECTING ->
           {Raised("analyze_data failed"), Returned("analysis")}
      [] stage = ANALYZING ->
           {Raised("generate_markdown_report failed"), Returned("report")}
      [] stage = SYNTHESIZING ->
           {Raised("evaluate_research failed")} \cup {Returned(q) : q \in Scores}
      [] OTHER -> {NoCall}

\* What open(path, 'w') and json.dump did
WriteOutcomes == {"ok", "open_error", "dump_error"}

----------------------------------------------------------------------------
(* Stage transition functions.  Each returns [raised, msg, state]; a      *)
(* transition that raises has not yet assigned anything to the state.     *)

Ok(s) == [raised |-> FALSE, msg |-> "", state |-> s]

Fail(s, m) == [raised |-> TRUE, msg |-> m, state |-> s]

_plan(s, r) ==
    IF s.config # "dict"
    THEN Fail(s, "config has no attribute get")
    ELSE Ok([s EXCEPT !.metadata.plan = Some(s.query),
                      !.current_stage = PLANNING])

_collect_data(s, r) ==
    IF s.config # "dict" THEN Fail(s, "config has no attribute get")
    ELSE IF r.raised THEN Fail(s, r.msg)
    ELSE LET collected_data == TheValue(r.value)
         IN  Ok([s EXCEPT !.data = collected_data,
                          !.metadata.data_stats = Some(SumCounts(collected_data)),
                          !.current_stage = COLLECTING])

\* Variant: the analysis stage is passed over
_analyze_skips_stage(s, r) ==
    IF r.raised THEN Fail(s, r.msg)
    ELSE Ok([s EXCEPT !.analysis = r.value,
                      !.current_stage = SYNTHESIZING])

_analyze(s, r) ==
    IF r.raised THEN Fail(s, r.msg)
    ELSE Ok([s EXCEPT !.analysis = r.value,
                      !.current_stage = ANALYZING])

_synthesize(s, r) ==
    IF r.raised THEN Fail(s, r.msg)
    ELSE Ok([s EXCEPT !.report = r.value,
                      !.current_stage = SYNTHESIZING])

_evaluate(s, r) ==
    IF r.raised THEN Fail(s, r.msg)
    ELSE Ok([s EXCEPT !.quality_score = r.value,
                      !.metadata.evaluation = r.value,
                      !.current_stage = EVALUATING])

min_quality == 70

max_refinements == 1

\* Variant: the refinement limit is checked against 2 instead of 1
_refine_or_complete_two_refinements(s, r) ==
    IF Truthy(s.quality_score) /\ TheValue(s.quality_score) < min_quality
    THEN IF MetadataGet(s.metadata.refinement_count, 0) < max_refinements + 1
         THEN Ok([s EXCEPT !.metadata.refinement_count =
                               Some(MetadataGet(s.metadata.refinement_count, 0) + 1),
                           !.current_stage = PLANNING])
         ELSE Ok([s EXCEPT !.current_stage = COMPLETE])
    ELSE Ok([s EXCEPT !.current_stage = COMPLETE])

\* Variant: the refinement is taken without counting it
_refine_or_complete_uncounted(s, r) ==
    IF Truthy(s.quality_score) /\ TheValue(s.quality_score) < min_quality
    THEN IF MetadataGet(s.metadata.refinement_count, 0) < max_refinements
         THEN Ok([s EXCEPT !.current_stage = PLANNING])
         ELSE Ok([s EXCEPT !.current_stage = COMPLETE])
    ELSE Ok([s EXCEPT !.current_stage = COMPLETE])

_refine_or_complete(s, r) ==
    IF Truthy(s.quality_score) /\ TheValue(s.quality_score) < min_quality
    THEN IF MetadataGet(s.metadata.refinement_count, 0) < max_refinements
         THEN Ok([s EXCEPT !.metadata.refinement_count =
                               Some(MetadataGet(s.metadata.refinement_count, 0) + 1),
                           !.current_stage = PLANNING])
         ELSE Ok([s EXCEPT !.current_stage = COMPLETE])
    ELSE Ok([s EXCEPT !.current_stage = COMPLETE])

\* ResearchWorkflow.transitions: the stages that have a transition function
transitions ==
    [stage \in {INIT, PLANNING, COLLECTING, ANALYZING, SYNTHESIZING, EVALUATING} |->
        CASE stage = INIT -> "_plan"
          [] stage = PLANNING -> "_collect_data"
          [] stage = COLLECTING -> "_analyze"
          [] stage = ANALYZING -> "_synthesize"
          [] stage = SYNTHESIZING -> "_evaluate"
          [] stage = EVALUATING -> "_refine_or_complete"]

\* self.transitions.get(stage): None for a stage without an entry
TransitionFor(stage) ==
    IF stage \in DOMAIN transitions THEN Some(transitions[stage]) ELSE None

Call(f, s, r) ==
    CASE f = "_plan" -> _plan(s, r)
      [] f = "_collect_data" -> _collect_data(s, r)
      [] f = "_analyze" -> _analyze(s, r)
      [] f = "_synthesize" -> _synthesize(s, r)
      [] f = "_evaluate" -> _evaluate(s, r)
      [] f = "_refine_or_complete" -> _refine_or_complete(s, r)

----------------------------------------------------------------------------
(* Checkpoint files *)

\* f'/tmp/checkpoint_{stage.value}.json': one path per stage value
CheckpointPath(s) == s.current_stage

Paths == WorkflowState

NoFile == [status |-> "absent", content |-> None]

\* AgentState.save_checkpoint: open(path, 'w') truncates the file, json.dump
\* writes it piece by piece; w is what the two calls did.
save_checkpoint(fs, s, w) ==
    CASE w = "ok" ->
           [raised |-> FALSE, msg |-> "",
            files |-> [fs EXCEPT ![CheckpointPath(s)] =
                          [status |-> "valid", content |-> Some(to_dict(s))]]]
      [] w = "open_error" ->
           [raised |-> TRUE, msg |-> "cannot open checkpoint file", files |-> fs]
      [] w = "dump_error" ->
           [raised |-> TRUE, msg |-> "state is not JSON serializable",
            files |-> [fs EXCEPT ![CheckpointPath(s)] =
                          [status |-> "partial", content |-> None]]]

----------------------------------------------------------------------------
(* One iteration of the loop of execute *)

NoEvent == [kind |-> "none", msg |-> "", from |-> INIT]

\* Variant: the handler forces the stage to failed and drops the message
except_handler_no_message(s, msg) ==
    [s EXCEPT !.current_stage = FAILED]

\* except Exception as e: append str(e), force the stage to failed, break
except_handler(s, msg) ==
    [s EXCEPT !.errors = Append(s.errors, msg),
              !.current_stage = FAILED]

\* Variant: the checkpoint is written after the try block, so its exception
\* leaves execute
LoopBody_checkpoint_outside_try(s, fs, r, w) ==
    LET f == TheValue(TransitionFor(s.current_stage))
        t == Call(f, s, r)
        c == save_checkpoint(fs, t.state, w)
    IN  IF t.raised
        THEN [state |-> except_handler(s, t.msg), files |-> fs, escaped |-> FALSE,
              event |-> [kind |-> "transition_raised", msg |-> t.msg,
                         from |-> s.current_stage]]
        ELSE IF c.raised
        THEN [state |-> t.state, files |-> c.files, escaped |-> TRUE,
              event |-> [kind |-> "checkpoint_raised", msg |-> c.msg,
                         from |-> s.current_stage]]
        ELSE [state |-> t.state, files |-> c.files, escaped |-> FALSE,
              event |-> [kind |-> "ok", msg |-> "", from |-> s.current_stage]]

\* The body of the while loop for a stage that has a transition function:
\* the transition, then the checkpoint, both inside the try block.
LoopBody(s, fs, r, w) ==
    LET f == TheValue(TransitionFor(s.current_stage))
        t == Call(f, s, r)
        c == save_checkpoint(fs, t.state, w)
    IN  IF t.raised
        THEN [state |-> except_handler(s, t.msg), files |-> fs, escaped |-> FALSE,
              event |-> [kind |-> "transition_raised", msg |-> t.msg,
                         from |-> s.current_stage]]
        ELSE IF c.raised
        THEN [state |-> except_handler(t.state, c.msg), files |-> c.files,
              escaped |-> FALSE,
              event |-> [kind |-> "checkpoint_raised", msg |-> c.msg,
                         from |-> s.current_stage]]
        ELSE [state |-> t.state, files |-> c.files, escaped |-> FALSE,
              event |-> [kind |-> "ok", msg |-> "", from |-> s.current_stage]]

\* The loop condition and the break for a stage without a transition function
LoopContinues(s) ==
    /\ s.current_stage \notin Terminal
    /\ TransitionFor(s.current_stage) # None

----------------------------------------------------------------------------
(* Actions of the workflow *)

NoState == InitialState("", "dict")

InitWorkflow ==
    /\ state = NoState
    /\ wpc = "idle"
    /\ files = [p \in Paths |-> NoFile]
    /\ run = 0
    /\ ntrans = 0
    /\ loopbacks = 0
    /\ lastEvent = NoEvent

\* execute(query, config) is called: a fresh AgentState
Execute ==
    /\ wpc \in {"idle", "returned", "escaped"}
    /\ run < MaxRuns
    /\ \E query \in Queries, config \in Configs :
          state' = InitialState(query, config)
    /\ wpc' = "loop"
    /\ run' = run + 1
    /\ ntrans' = 0
    /\ loopbacks' = 0
    /\ lastEvent' = NoEvent
    /\ UNCHANGED files
    /\ UNCHANGED exceptWf

\* One pass through the while loop
Iterate ==
    /\ wpc = "loop"
    /\ LoopContinues(state)
    /\ \E r \in CollabOutcomes(state.current_stage), w \in WriteOutcomes :
          LET out == LoopBody(state, files, r, w)
          IN  /\ state' = out.state
              /\ files' = out.files
              /\ lastEvent' = out.event
              /\ wpc' = IF out.escaped THEN "escaped" ELSE "loop"
              /\ loopbacks' = IF /\ state.current_stage = EVALUATING
                                 /\ out.state.current_stage = PLANNING
                              THEN loopbacks + 1 ELSE loopbacks
    /\ ntrans' = ntrans + 1
    /\ UNCHANGED run
    /\ UNCHANGED exceptWf

\* return self.state
Return ==
    /\ wpc = "loop"
    /\ ~LoopContinues(state)
    /\ wpc' = "returned"
    /\ UNCHANGED <<state, files, run, ntrans, loopbacks, lastEvent>>
    /\ UNCHANGED exceptWf

----------------------------------------------------------------------------
(* The workflow with the collaborators the repository defines *)

\* The names src/src/scraper.py, analyzer.py and formatter.py define, and
\* the public methods of evaluation.ResearchEvaluator
scraper_names ==
    {"ArxivScraper", "GitHubScraper", "HackerNewsScraper", "RedditScraper",
     "DevToScraper", "RSSFeedScraper", "DataScraper", "logger"}

analyzer_names ==
    {"GroqAnalyzer", "HuggingFaceAnalyzer", "GeminiAnalyzer", "ResearchAnalyzer",
     "logger"}

formatter_names ==
    {"MarkdownFormatter", "JSONFormatter", "HTMLFormatter", "BibTeXFormatter",
     "CSVFormatter", "MermaidFormatter", "OutputFormatter", "logger"}

ResearchEvaluator_methods ==
    {"evaluate_comprehensiveness", "evaluate_relevance",
     "evaluate_analysis_quality", "evaluate_output_formats",
     "comprehensive_evaluation"}

\* from module import name, or instance.name: raises when the name is not
\* there, and otherwise the call has the outcomes of the collaborator
Lookup(name, names, stage) ==
    IF name \in names THEN CollabOutcomes(stage)
    ELSE {Raised("cannot import name " \o name)}

\* What the collaborator call of the transition out of a stage does
BoundOutcomes(stage) ==
    CASE stage = PLANNING -> Lookup("collect_data", scraper_names, stage)
      [] stage = COLLECTING -> Lookup("analyze_data", analyzer_names, stage)
      [] stage = ANALYZING ->
           Lookup("generate_markdown_report", formatter_names, stage)
      [] stage = SYNTHESIZING ->
           Lookup("evaluate_research", ResearchEvaluator_methods, stage)
      [] OTHER -> {NoCall}

ExecuteBound ==
    /\ wpc \in {"idle", "returned", "escaped"}
    /\ run < MaxBoundRuns
    /\ \E query \in Queries, config \in Configs :
          state' = InitialState(query, config)
    /\ wpc' = "loop"
    /\ run' = run + 1
    /\ ntrans' = 0
    /\ loopbacks' = 0
    /\ lastEvent' = NoEvent
    /\ UNCHANGED files
    /\ UNCHANGED exceptWf

IterateBound ==
    /\ wpc = "loop"
    /\ LoopContinues(state)
    /\ \E r \in BoundOutcomes(state.current_stage), w \in WriteOutcomes :
          LET out == LoopBody(state, files, r, w)
          IN  /\ state' = out.state
              /\ files' = out.files
              /\ lastEvent' = out.event
              /\ wpc' = IF out.escaped THEN "escaped" ELSE "loop"
              /\ loopbacks' = IF /\ state.current_stage = EVALUATING
                                 /\ out.state.current_stage = PLANNING
                              THEN loopbacks + 1 ELSE loopbacks
    /\ ntrans' = ntrans + 1
    /\ UNCHANGED run
    /\ UNCHANGED exceptWf

----------------------------------------------------------------------------
(* ModelManager: registry and loaded backends *)

Names == {"llama", "mistral", "phi"}

\* ModelConfig.model_type: OllamaModel, LocalTransformersModel, unsupported
ModelTypes == {"ollama", "local", "api"}

Threads == {"t1", "t2"}

\* AgentConfig.default_model
default_model == "llama"

Descriptor(type) == [model_type |-> type]

Entry(n, c) == [name |-> n, cfg |-> c]

\* Config.load_default().models
DefaultConfigs ==
    << Entry("llama", Descriptor("ollama")),
       Entry("mistral", Descriptor("ollama")),
       Entry("phi", Descriptor("ollama")) >>

\* The registries a ModelManager is constructed with: Config() and load_default()
InitialConfigs == { <<>>, DefaultConfigs }

\* name in self.configs
Registered(cs) == {cs[i].name : i \in DOMAIN cs}

\* self.configs[name]
ConfigOf(cs, n) == cs[CHOOSE i \in DOMAIN cs : cs[i].name = n].cfg

\* Variant: registering a name drops the names registered before
SetConfig_replacing(cs, n, c) == <<Entry(n, c)>>

\* self.configs[name] = config: a new key goes last, a known key keeps its place
SetConfig(cs, n, c) ==
    IF n \in Registered(cs)
    THEN [i \in DOMAIN cs |-> IF cs[i].name = n THEN Entry(n, c) ELSE cs[i]]
    ELSE Append(cs, Entry(n, c))

\* name in self.models
Loaded(ms) == {n \in Names : ms[n] # None}

\* A backend instance: BaseModel.__init__ keeps the descriptor it was built from
Instance(n, serial, c) == [name |-> n, serial |-> serial, config |-> c, loaded |-> TRUE]

Idle == [op |-> "none", pc |-> "idle", name |-> "", arg |-> "", inst |-> None,
         todo |-> <<>>, ret |-> "done", result |-> "none"]

\* A call begins: arg is the argument as passed, name the model name in use
Begin(op, pc, n) ==
    [op |-> op, pc |-> pc, name |-> n, arg |-> n, inst |-> None, todo |-> <<>>,
     ret |-> "done", result |-> "none"]

\* The call of thread record l ends with result res
Finish(l, res) == [l EXCEPT !.pc = "idle", !.result = res, !.inst = None]

\* Order in which list(self.models.keys()) is walked by unload_all
RECURSIVE SeqOf(_)
SeqOf(S) ==
    IF S = {} THEN <<>>
    ELSE LET n == CHOOSE x \in S : TRUE IN <<n>> \o SeqOf(S \ {n})

InitMMWith(ts) ==
    /\ configs \in InitialConfigs
    /\ models = [n \in Names |-> None]
    /\ callers = ts
    /\ th = [t \in Threads |-> Idle]
    /\ created = [n \in Names |-> 0]
    /\ calls = 0

CanCall(t) ==
    /\ t \in callers
    /\ th[t].pc = "idle"
    /\ calls < MaxCalls

Started(t, l) ==
    /\ th' = [th EXCEPT ![t] = l]
    /\ calls' = calls + 1

\* register_model(name, config)
RegisterModel(t) ==
    /\ CanCall(t)
    /\ \E n \in Names, ty \in ModelTypes :
          /\ configs' = SetConfig(configs, n, Descriptor(ty))
          /\ Started(t, Finish(Begin("register_model", "idle", n), "ok"))
    /\ UNCHANGED <<models, callers, created>>
    /\ UNCHANGED exceptMM

\* select_best_model(task_type)
TaskTypes == {"code", "reasoning", "general", "fast", "creative", "unknown"}

task_to_model(task_type) ==
    CASE task_type \in {"code", "reasoning"} -> "llama"
      [] task_type \in {"general", "creative"} -> "mistral"
      [] task_type = "fast" -> "phi"
      [] OTHER -> "mistral"

\* Variant: the fallback takes the last registered name
select_best_model_last(cs, task_type) ==
    LET selected == task_to_model(task_type)
    IN  IF selected \notin Registered(cs)
        THEN IF cs # <<>> THEN cs[Len(cs)].name ELSE "llama"
        ELSE selected

select_best_model(cs, task_type) ==
    LET selected == task_to_model(task_type)
    IN  IF selected \notin Registered(cs)
        THEN IF cs # <<>> THEN cs[1].name ELSE "llama"
        ELSE selected

SelectBestModel(t) ==
    /\ CanCall(t)
    /\ \E task \in TaskTypes :
          Started(t, Finish(Begin("select_best_model", "idle", task),
                            select_best_model(configs, task)))
    /\ UNCHANGED <<configs, models, callers, created>>
    /\ UNCHANGED exceptMM

\* load_model(name) is called
LoadModelCall(t) ==
    /\ CanCall(t)
    /\ \E n \in Names : Started(t, Begin("load_model", "load_check", n))
    /\ UNCHANGED <<configs, models, callers, created>>
    /\ UNCHANGED exceptMM

\* Variant: an omitted model name is chosen by select_best_model
resolve_model_name_by_selection(model_name, cs) ==
    IF model_name = "None" THEN select_best_model(cs, "general") ELSE model_name

\* generate: if model_name is None: model_name = self.config.agent.default_model
resolve_model_name(model_name, cs) ==
    IF model_name = "None" THEN default_model ELSE model_name

\* generate(prompt, model_name): model_name None is the configured default
GenerateCall(t) ==
    /\ CanCall(t)
    /\ \E model_name \in Names \cup {"None"} :
          Started(t, [Begin("generate", "gen_check",
                            resolve_model_name(model_name, configs))
                         EXCEPT !.arg = model_name])
    /\ UNCHANGED <<configs, models, callers, created>>
    /\ UNCHANGED exceptMM

\* Variant: generate goes to the backend call without loading
gen_check_no_load(l, ms) == [l EXCEPT !.pc = "gen_call"]

\* generate: if model_name not in self.models: self.load_model(model_name)
gen_check(l, ms) ==
    IF l.name \notin Loaded(ms)
    THEN [l EXCEPT !.pc = "load_check", !.ret = "gen_call"]
    ELSE [l EXCEPT !.pc = "gen_call"]

GenCheck(t) ==
    /\ t \in callers
    /\ th[t].pc = "gen_check"
    /\ th' = [th EXCEPT ![t] = gen_check(th[t], models)]
    /\ UNCHANGED <<configs, models, callers, created, calls>>
    /\ UNCHANGED exceptMM

\* Variant: load_model without the `name in self.models` test
load_check_reload(l, cs, ms) ==
    IF l.name \notin Registered(cs) THEN Finish(l, "ValueError: not found")
    ELSE [l EXCEPT !.pc = "load_do"]

\* load_model: the two membership tests
load_check(l, cs, ms) ==
    IF l.name \notin Registered(cs) THEN Finish(l, "ValueError: not found")
    ELSE IF l.name \in Loaded(ms)
    THEN IF l.ret = "done" THEN Finish(l, "ok") ELSE [l EXCEPT !.pc = l.ret]
    ELSE [l EXCEPT !.pc = "load_do"]

LoadCheck(t) ==
    /\ t \in callers
    /\ th[t].pc = "load_check"
    /\ th' = [th EXCEPT ![t] = load_check(th[t], configs, models)]
    /\ UNCHANGED <<configs, models, callers, created, calls>>
    /\ UNCHANGED exceptMM

\* load_model: read the descriptor, construct the backend, call its load()
LoadDo(t) ==
    /\ t \in callers
    /\ th[t].pc = "load_do"
    /\ LET l == th[t]
           config == ConfigOf(configs, l.name)
       IN  IF config.model_type \notin {"ollama", "local"}
           THEN /\ th' = [th EXCEPT ![t] = Finish(l, "ValueError: unsupported")]
                /\ UNCHANGED created
           ELSE /\ created' = [created EXCEPT ![l.name] = @ + 1]
                /\ \E load_ok \in (IF config.model_type = "local"
                                   THEN BOOLEAN ELSE {TRUE}) :
                      th' = [th EXCEPT ![t] =
                               IF load_ok
                               THEN [l EXCEPT !.pc = "load_store",
                                              !.inst = Some(Instance(l.name,
                                                  created[l.name] + 1, config))]
                               ELSE Finish(l, "load failed")]
    /\ UNCHANGED <<configs, models, callers, calls>>
    /\ UNCHANGED exceptMM

\* load_model: self.models[name] = model
LoadStore(t) ==
    /\ t \in callers
    /\ th[t].pc = "load_store"
    /\ models' = [models EXCEPT ![th[t].name] = th[t].inst]
    /\ th' = [th EXCEPT ![t] =
                IF th[t].ret = "done" THEN Finish(th[t], "ok")
                ELSE [th[t] EXCEPT !.pc = th[t].ret, !.inst = None]]
    /\ UNCHANGED <<configs, callers, created, calls>>
    /\ UNCHANGED exceptMM

\* generate: return self.models[model_name].generate(prompt, **kwargs)
GenCall(t) ==
    /\ t \in callers
    /\ th[t].pc = "gen_call"
    /\ IF th[t].name \notin Loaded(models)
       THEN th' = [th EXCEPT ![t] = Finish(th[t], "KeyError")]
       ELSE \E res \in {"text", "generate failed"} :
               th' = [th EXCEPT ![t] = Finish(th[t], res)]
    /\ UNCHANGED <<configs, models, callers, created, calls>>
    /\ UNCHANGED exceptMM

\* unload_model(name) is called
UnloadModelCall(t) ==
    /\ CanCall(t)
    /\ \E n \in Names :
          Started(t, [Begin("unload_model", "unload_check", n) EXCEPT !.todo = <<n>>])
    /\ UNCHANGED <<configs, models, callers, created>>
    /\ UNCHANGED exceptMM

\* unload_all(): for name in list(self.models.keys()): self.unload_model(name)
UnloadAllCall(t) ==
    /\ CanCall(t)
    /\ LET todo == SeqOf(Loaded(models))
       IN  Started(t, IF todo = <<>>
                      THEN Finish(Begin("unload_all", "idle", ""), "ok")
                      ELSE [Begin("unload_all", "unload_check", todo[1])
                               EXCEPT !.todo = todo])
    /\ UNCHANGED <<configs, models, callers, created>>
    /\ UNCHANGED exceptMM

\* The unload_model call for the head of todo is over
NextUnload(l) ==
    IF Len(l.todo) <= 1 THEN Finish([l EXCEPT !.todo = <<>>], "ok")
    ELSE [l EXCEPT !.todo = Tail(l.todo), !.name = l.todo[2], !.pc = "unload_check"]

\* Variant: unload_model without the `name in self.models` test
unload_check_no_test(l, ms) == [l EXCEPT !.pc = "unload_do"]

\* unload_model: if name in self.models
unload_check(l, ms) ==
    IF l.name \in Loaded(ms) THEN [l EXCEPT !.pc = "unload_do"] ELSE NextUnload(l)

UnloadCheck(t) ==
    /\ t \in callers
    /\ th[t].pc = "unload_check"
    /\ th' = [th EXCEPT ![t] = unload_check(th[t], models)]
    /\ UNCHANGED <<configs, models, callers, created, calls>>
    /\ UNCHANGED exceptMM

\* unload_model: self.models[name].unload(); del self.models[name]
UnloadDo(t) ==
    /\ t \in callers
    /\ th[t].pc = "unload_do"
    /\ IF th[t].name \in Loaded(models)
       THEN /\ models' = [models EXCEPT ![th[t].name] = None]
            /\ th' = [th EXCEPT ![t] = NextUnload(th[t])]
       ELSE /\ th' = [th EXCEPT ![t] = Finish(th[t], "KeyError")]
            /\ UNCHANGED models
    /\ UNCHANGED <<configs, callers, created, calls>>
    /\ UNCHANGED exceptMM

----------------------------------------------------------------------------
(* CacheManager (src/src/memory.py) *)

Keys == {"k1", "k2"}

\* Values given to set: a string, a tuple, an object json cannot encode
CacheValues == {"a", "(1, 2)", "object()"}

\* ttl_hours given to the constructor
TTLs == {1, 2}

\* json.dump(value) raises TypeError
Serializable(value) == value # "object()"

\* json.load of what json.dump wrote: a tuple comes back as a list
json_roundtrip(value) == IF value = "(1, 2)" THEN "[1, 2]" ELSE value

\* _get_cache_key: the file of a key, named by the key's md5 digest
_get_cache_key(key) == "md5(" \o key \o ").json"

CacheFiles == { _get_cache_key(k) : k \in Keys }

\* The JSON document of an entry, as json.load returns it
CacheData(key, value, timestamp) ==
    [valid |-> TRUE, timestamp |-> timestamp, key |-> key, value |-> json_roundtrip(value)]

\* A file opened for writing whose json.dump raised: not a JSON document
Truncated == [valid |-> FALSE, timestamp |-> 0, key |-> "", value |-> ""]

EmptyDir == [f \in CacheFiles |-> None]

\* datetime.now() - cached_time > self.ttl
Expired(cached_data, t, ttl_) == t - cached_data.timestamp > ttl_

\* Variant: get returns absent for an expired entry and leaves the file
cache_get_keep_expired(dir, key, t, ttl_) ==
    LET cache_file == _get_cache_key(key)
    IN  IF dir[cache_file] = None THEN [dir |-> dir, value |-> None]
        ELSE LET cached_data == TheValue(dir[cache_file])
             IN  IF ~cached_data.valid THEN [dir |-> dir, value |-> None]
                 ELSE IF Expired(cached_data, t, ttl_)
                 THEN [dir |-> dir, value |-> None]
                 ELSE [dir |-> dir, value |-> Some(cached_data.value)]

\* CacheManager.get: the directory afterwards and the value returned
cache_get(dir, key, t, ttl_) ==
    LET cache_file == _get_cache_key(key)
    IN  IF dir[cache_file] = None THEN [dir |-> dir, value |-> None]
        ELSE LET cached_data == TheValue(dir[cache_file])
             IN  IF ~cached_data.valid THEN [dir |-> dir, value |-> None]
                 ELSE IF Expired(cached_data, t, ttl_)
                 THEN [dir |-> [dir EXCEPT ![cache_file] = None], value |-> None]
                 ELSE [dir |-> dir, value |-> Some(cached_data.value)]

\* CacheManager.set: open(cache_file, 'w') empties the file, json.dump fills it
cache_set(dir, key, value, t) ==
    [dir EXCEPT ![_get_cache_key(key)] =
        IF Serializable(value) THEN Some(CacheData(key, value, t)) ELSE Some(Truncated)]

\* CacheManager.get_stats
get_stats(dir, t, ttl_) ==
    LET cache_files == {f \in CacheFiles : dir[f] # None}
        readable == {f \in cache_files : TheValue(dir[f]).valid}
        expired == {f \in readable : Expired(TheValue(dir[f]), t, ttl_)}
    IN  [total_files |-> Cardinality(cache_files),
         valid_count |-> Cardinality(readable \ expired),
         expired_count |-> Cardinality(expired)]

NoCacheCall ==
    [op |-> "none", key |-> "", value |-> None, stats |-> None, at |-> 0, since |-> None]

CacheCall(op, key, value, stats) ==
    [op |-> op, key |-> key, value |-> value, stats |-> stats, at |-> now,
     since |-> IF key \in Keys THEN lastSet[key] ELSE None]

InitCacheWith(ttls) ==
    /\ cache_dir = EmptyDir
    /\ ttl \in ttls
    /\ now = 0
    /\ cret = NoCacheCall
    /\ lastSet = [k \in Keys |-> None]
    /\ nops = 0

CacheGet ==
    /\ nops < MaxOps
    /\ \E key \in Keys :
          LET r == cache_get(cache_dir, key, now, ttl)
          IN  /\ cache_dir' = r.dir
              /\ cret' = CacheCall("get", key, r.value, None)
    /\ nops' = nops + 1
    /\ UNCHANGED <<ttl, now, lastSet>>
    /\ UNCHANGED exceptCM

CacheSet ==
    /\ nops < MaxOps
    /\ \E key \in Keys, value \in CacheValues :
          /\ cache_dir' = cache_set(cache_dir, key, value, now)
          /\ cret' = CacheCall("set", key, None, None)
          /\ lastSet' = [lastSet EXCEPT ![key] = Some([value |-> value, at |-> now])]
    /\ nops' = nops + 1
    /\ UNCHANGED <<ttl, now>>
    /\ UNCHANGED exceptCM

\* CacheManager.clear: every file of the directory is removed
CacheClear ==
    /\ nops < MaxOps
    /\ cache_dir' = EmptyDir
    /\ cret' = CacheCall("clear", "", None, None)
    /\ lastSet' = [k \in Keys |-> None]
    /\ nops' = nops + 1
    /\ UNCHANGED <<ttl, now>>
    /\ UNCHANGED exceptCM

CacheGetStats ==
    /\ nops < MaxOps
    /\ cret' = CacheCall("get_stats", "", None, Some(get_stats(cache_dir, now, ttl)))
    /\ nops' = nops + 1
    /\ UNCHANGED <<cache_dir, ttl, now, lastSet>>
    /\ UNCHANGED exceptCM

\* Time passes between two calls
Tick ==
    /\ now < MaxTime
    /\ now' = now + 1
    /\ UNCHANGED <<cache_dir, ttl, cret, lastSet, nops>>
    /\ UNCHANGED exceptCM

----------------------------------------------------------------------------
(* DataScraper (src/src/scraper.py) and WebSearcher (src/src/web_search.py) *)

\* An item is known by its url (its link, for a paper): a number
Range(first, n) == [i \in 1..n |-> first + i - 1]

\* seq[:n]
Take(seq, n) == SubSeq(seq, 1, IF Len(seq) < n THEN Len(seq) ELSE n)

\* Keep the first item of each url, in order
Deduplicate(seq) ==
    LET unique[i \in 0..Len(seq)] ==
            IF i = 0 THEN <<>>
            ELSE IF \E j \in 1..(i - 1) : seq[j] = seq[i]
                 THEN unique[i - 1]
                 ELSE Append(unique[i - 1], seq[i])
    IN  unique[Len(seq)]

Focuses == {"papers", "tools", "trends", "all", "other"}

Depths == {"quick", "standard", "deep", "other"}

limits ==
    [quick    |-> [papers |-> 20, repos |-> 15, news |-> 10, web |-> 5],
     standard |-> [papers |-> 50, repos |-> 30, news |-> 20, web |-> 15],
     deep     |-> [papers |-> 100, repos |-> 50, news |-> 40, web |-> 30]]

\* limits.get(depth, limits['standard'])
LimitOf(depth) == IF depth \in DOMAIN limits THEN limits[depth] ELSE limits.standard

FailureKinds == {"network error", "timeout", "5xx status", "malformed payload"}

\* What a request brings: a failure, or the items of the response
Failure(kind) == [fail |-> kind, items |-> <<>>]

Response(items) == [fail |-> "", items |-> items]

\* A server that returns at most the number of items asked for
Bounded(n) == {Failure(k) : k \in FailureKinds} \cup {Response(<<>>), Response(Range(1, n))}

\* A server that may return more items than asked for
Unbounded(n) == {Failure(k) : k \in FailureKinds} \cup {Response(<<>>), Response(Range(1, n + 1))}

\* What the search providers bring: a failure of every provider, nothing, one
\* of two disjoint pages, or a page with the same url twice
SearchOutcomes ==
    {Failure("network error"),
     Response(<<>>), Response(Range(1, MaxResponse)),
     Response(Range(MaxResponse + 1, MaxResponse)), Response(<<1, 1>>)}

\* What an adapter gives its caller
Returns(items) == [raised |-> FALSE, items |-> items]

Raises == [raised |-> TRUE, items |-> <<>>]

\* Variant: an adapter without its try/except
adapter_unguarded(out, items) == IF out.fail # "" THEN Raises ELSE Returns(items)

\* try: ... return items / except Exception: return []
adapter(out, items) == IF out.fail # "" THEN Returns(<<>>) ELSE Returns(items)

\* ArxivScraper.search: every entry of the response
arxiv_search(out, max_results) == adapter(out, out.items)

\* GitHubScraper.search_repositories: items[:max_results]
search_repositories(out, max_results) == adapter(out, Take(out.items, max_results))

\* HackerNewsScraper.get_top_stories: story_ids[:max_results]
get_top_stories(out, max_results) == adapter(out, Take(out.items, max_results))

\* DevToScraper.search: articles[:max_results]
devto_search(out, max_results) == adapter(out, Take(out.items, max_results))

\* RSSFeedScraper.scrape: all_entries[:max_results]
rss_scrape(out, max_results) == adapter(out, Take(out.items, max_results))

\* RedditScraper.search: every child of the response
reddit_search(out, max_results) == adapter(out, out.items)

\* WebSearcher.search: results[:max_results], [] when the providers failed
web_search_search(out, max_results) == adapter(out, Take(out.items, max_results))

\* WebSearcher.search_tools: search(query, max_results=15)
search_tools(out) == web_search_search(out, 15)

\* WebSearcher.search_trends: two searches of 10, deduplicated by url
search_trends(out1, out2) ==
    Returns(Deduplicate(web_search_search(out1, 10).items \o
                        web_search_search(out2, 10).items))

\* Variant: the results without the web category
NoResults_without_web ==
    [papers |-> <<>>, repositories |-> <<>>, news |-> <<>>, discussions |-> <<>>]

NoResults ==
    [papers |-> <<>>, repositories |-> <<>>, news |-> <<>>, discussions |-> <<>>,
     web_results |-> <<>>]

Adapters ==
    <<"arxiv", "github", "web_tools", "hackernews", "devto", "rss", "reddit",
      "web_trends", "web_general">>

\* Variant: the general web search also runs for focus 'all'
Called_general_on_all(a, req, ws) ==
    CASE a = "arxiv" -> req.focus \in {"papers", "all"}
      [] a = "github" -> req.focus \in {"tools", "all"}
      [] a = "web_tools" ->
            req.focus \in {"tools", "all"} /\ ws /\ req.depth \in {"standard", "deep"}
      [] a \in {"hackernews", "devto", "rss", "reddit"} -> req.focus \in {"trends", "all"}
      [] a = "web_trends" ->
            req.focus \in {"trends", "all"} /\ ws /\ req.depth \in {"standard", "deep"}
      [] a = "web_general" -> ws /\ (req.depth = "deep" \/ req.focus = "all")

\* The conditions under which scrape_all calls an adapter
Called(a, req, ws) ==
    CASE a = "arxiv" -> req.focus \in {"papers", "all"}
      [] a = "github" -> req.focus \in {"tools", "all"}
      [] a = "web_tools" ->
            req.focus \in {"tools", "all"} /\ ws /\ req.depth \in {"standard", "deep"}
      [] a \in {"hackernews", "devto", "rss", "reddit"} -> req.focus \in {"trends", "all"}
      [] a = "web_trends" ->
            req.focus \in {"trends", "all"} /\ ws /\ req.depth \in {"standard", "deep"}
      [] a = "web_general" -> ws /\ req.depth = "deep"

\* The position after the i-th adapter: the next adapter called, or the return
NextCalled(i, req, ws) ==
    LET later == {j \in (i + 1)..Len(Adapters) : Called(Adapters[j], req, ws)}
    IN  IF later = {} THEN "returned"
        ELSE Adapters[CHOOSE j \in later : \A k \in later : j <= k]

IndexOf(a) == CHOOSE i \in 1..Len(Adapters) : Adapters[i] = a

InitScraperWith(ws) ==
    /\ web_search \in ws
    /\ sreq = [focus |-> "all", depth |-> "standard"]
    /\ spc = "idle"
    /\ results = NoResults
    /\ failed = {}
    /\ invoked = {}

\* scrape_all is called: results starts empty.  Its variables are local to
\* the call, so one call from the idle scraper shows every call.
ScrapeAll ==
    /\ spc = "idle"
    /\ \E focus \in Focuses, depth \in Depths :
          LET req == [focus |-> focus, depth |-> depth]
          IN  /\ sreq' = req
              /\ spc' = NextCalled(0, req, web_search)
    /\ results' = NoResults
    /\ failed' = {}
    /\ invoked' = {}
    /\ UNCHANGED web_search
    /\ UNCHANGED exceptDS

\* One adapter call of scrape_all: r is what the adapter gave, out what its
\* request brought, merged the results with the adapter's items added
AdapterStep(a, out, r, merged) ==
    /\ spc = a
    /\ invoked' = invoked \cup {a}
    /\ failed' = IF out.fail # "" THEN failed \cup {a} ELSE failed
    /\ IF r.raised
       THEN spc' = "raised" /\ UNCHANGED results
       ELSE spc' = NextCalled(IndexOf(a), sreq, web_search) /\ results' = merged
    /\ UNCHANGED <<web_search, sreq>>
    /\ UNCHANGED exceptDS

\* try: <web search> / except Exception: logger.warning(...)
try_web(r) == IF r.raised THEN Returns(<<>>) ELSE r

\* results['papers'] = self.arxiv.search(query, max_results=limit['papers'], ...)
ScrapeArxiv ==
    \E out \in Bounded(LimitOf(sreq.depth).papers) :
        LET r == arxiv_search(out, LimitOf(sreq.depth).papers)
        IN  AdapterStep("arxiv", out, r, [results EXCEPT !.papers = r.items])

\* results['repositories'] = self.github.search_repositories(...)
ScrapeGitHub ==
    \E out \in Unbounded(LimitOf(sreq.depth).repos) :
        LET r == search_repositories(out, LimitOf(sreq.depth).repos)
        IN  AdapterStep("github", out, r, [results EXCEPT !.repositories = r.items])

\* results['web_results'].extend(tool_results[:limit['web'] // 2])
ScrapeWebTools ==
    \E out \in SearchOutcomes :
        LET r == try_web(search_tools(out))
        IN  AdapterStep("web_tools", out, r,
                [results EXCEPT !.web_results =
                    @ \o Take(r.items, LimitOf(sreq.depth).web \div 2)])

\* results['news'].extend(self.hackernews.get_top_stories(query, limit['news'] // 3))
ScrapeHackerNews ==
    \E out \in Unbounded(LimitOf(sreq.depth).news \div 3) :
        LET r == get_top_stories(out, LimitOf(sreq.depth).news \div 3)
        IN  AdapterStep("hackernews", out, r, [results EXCEPT !.news = @ \o r.items])

\* results['news'].extend(self.devto.search(query, limit['news'] // 3))
ScrapeDevTo ==
    \E out \in Unbounded(LimitOf(sreq.depth).news \div 3) :
        LET r == devto_search(out, LimitOf(sreq.depth).news \div 3)
        IN  AdapterStep("devto", out, r, [results EXCEPT !.news = @ \o r.items])

\* results['news'].extend(self.rss.scrape(query, limit['news'] // 3))
ScrapeRSS ==
    \E out \in Unbounded(LimitOf(sreq.depth).news \div 3) :
        LET r == rss_scrape(out, LimitOf(sreq.depth).news \div 3)
        IN  AdapterStep("rss", out, r, [results EXCEPT !.news = @ \o r.items])

\* results['discussions'] = self.reddit.search(query, max_results=limit['news'])
ScrapeReddit ==
    \E out \in Bounded(LimitOf(sreq.depth).news) :
        LET r == reddit_search(out, LimitOf(sreq.depth).news)
        IN  AdapterStep("reddit", out, r, [results EXCEPT !.discussions = r.items])

\* results['web_results'].extend(trend_results[:limit['web'] // 2])
ScrapeWebTrends ==
    \E out1 \in SearchOutcomes, out2 \in SearchOutcomes :
        LET r == try_web(search_trends(out1, out2))
        IN  AdapterStep("web_trends",
                IF out1.fail # "" /\ out2.fail # "" THEN out1 ELSE Response(<<>>), r,
                [results EXCEPT !.web_results =
                    @ \o Take(r.items, LimitOf(sreq.depth).web \div 2)])

\* The general search of depth 'deep', then the deduplication by url
ScrapeWebGeneral ==
    \E out \in SearchOutcomes :
        LET general_results == web_search_search(out, LimitOf(sreq.depth).web)
            r == try_web(general_results)
        IN  AdapterStep("web_general", out, r,
                IF general_results.raised THEN results
                ELSE [results EXCEPT !.web_results = Deduplicate(@ \o r.items)])

----------------------------------------------------------------------------
(* ResearchAnalyzer and its providers (src/src/analyzer.py) *)

AnalysisCategories == {"papers", "repositories", "news", "discussions"}

\* The n items of a category: the i-th has title c-i and i stars
ItemsOf(c, n) == [i \in 1..n |-> [title |-> c \o "-" \o ToString(i), stars |-> i]]

\* The data given to analyze: up to MaxItems items in each category
AnalysisData ==
    { [c \in AnalysisCategories |-> ItemsOf(c, n[c])] :
          n \in [AnalysisCategories -> 0..MaxItems] }

\* GroqAnalyzer._get_top_items: the first paper and the repository of most stars
_get_top_items(data) ==
    (IF data["papers"] # <<>>
     THEN <<"Paper: " \o data["papers"][1].title>> ELSE <<>>) \o
    (IF data["repositories"] # <<>>
     THEN LET repos == data["repositories"]
              top == CHOOSE i \in DOMAIN repos :
                        /\ \A j \in DOMAIN repos : repos[j].stars <= repos[i].stars
                        /\ \A j \in 1..(i - 1) : repos[j].stars < repos[i].stars
          IN  <<"Repository: " \o repos[top].title \o " (" \o
                    ToString(repos[top].stars) \o " stars)">>
     ELSE <<>>)

\* GroqAnalyzer._fallback_analysis
_fallback_analysis(data, query) ==
    [key_findings |->
        <<"Found " \o ToString(Len(data["papers"])) \o " academic papers",
          "Found " \o ToString(Len(data["repositories"])) \o " GitHub repositories",
          "Found " \o ToString(Len(data["news"])) \o " news articles",
          "Found " \o ToString(Len(data["discussions"])) \o " discussions">>,
     trends |-> "Research on " \o query \o
                " shows active development across multiple platforms.",
     notable_items |-> _get_top_items(data),
     recommendations |->
        <<"Review the top papers for academic insights",
          "Explore trending repositories for practical implementations",
          "Follow ongoing discussions for community perspectives">>,
     summary |-> "Comprehensive research on '" \o query \o
                 "' reveals significant activity across academic papers, " \o
                 "open-source projects, and community discussions."]

\* A text of more than 500 characters, and its first 500 characters
LongText == "long text"

LongTextPrefix == "long text[:500]"

\* content[:500]
First500(content) == IF content = LongText THEN LongTextPrefix ELSE content

\* The analysis built around a provider's text: content[:500] is the summary
TextAnalysis(content) ==
    [key_findings |-> <<>>, trends |-> content, notable_items |-> <<>>,
     recommendations |-> <<>>, summary |-> First500(content)]

\* A JSON object a provider may answer with, and the text of it
JsonAnalysis ==
    [key_findings |-> <<"a finding">>, trends |-> "a trend", notable_items |-> <<>>,
     recommendations |-> <<"a recommendation">>, summary |-> "a summary"]

JsonText == "{json}"

\* A JSON object with the section names of the prompt, and the text of it
OtherJson == [Summary |-> "a summary"]

OtherJsonText == "{other json}"

\* json.loads(content): the value, or nothing when it raises
json_loads(content) ==
    CASE content = JsonText -> Some(JsonAnalysis)
      [] content = OtherJsonText -> Some(OtherJson)
      [] OTHER -> None

\* What a provider call brings: an exception, or the content of the response
ProviderOutcomes ==
    { [fail |-> k, content |-> ""] : k \in {"unavailable", "timeout", "error"} } \cup
    { [fail |-> "", content |-> c] :
          c \in {JsonText, OtherJsonText, "plain text", LongText} }

\* Variant: a provider call whose exception is not caught
provider_call_unguarded(out, analysis, data, query) ==
    IF out.fail # "" THEN Raised(out.fail) ELSE Returned(analysis)

\* try: <call the provider> return analysis
\* except Exception: return self._fallback_analysis(data, query)
provider_call(out, analysis, data, query) ==
    IF out.fail # "" THEN Returned(_fallback_analysis(data, query))
    ELSE Returned(analysis)

\* GroqAnalyzer.analyze: the content is parsed as JSON, or kept as text
groq_analyze(client, out, data, query) ==
    IF ~client THEN Returned(_fallback_analysis(data, query))
    ELSE provider_call(out,
            IF json_loads(out.content) # None
            THEN TheValue(json_loads(out.content))
            ELSE TextAnalysis(out.content),
            data, query)

\* GeminiAnalyzer.analyze
gemini_analyze(model, out, data, query) ==
    IF ~model THEN Returned(_fallback_analysis(data, query))
    ELSE provider_call(out, TextAnalysis(out.content), data, query)

\* HuggingFaceAnalyzer.analyze
huggingface_analyze(client, out, data, query) ==
    IF ~client THEN Returned(_fallback_analysis(data, query))
    ELSE provider_call(out, TextAnalysis(out.content), data, query)

\* The provider ResearchAnalyzer.analyze selects
SelectedProvider ==
    IF groq_client THEN "groq"
    ELSE IF gemini_model THEN "gemini"
    ELSE IF huggingface_client THEN "huggingface"
    ELSE "none"

\* ResearchAnalyzer.analyze
analyze(out, data, query) ==
    IF groq_client THEN groq_analyze(groq_client, out, data, query)
    ELSE IF gemini_model THEN gemini_analyze(gemini_model, out, data, query)
    ELSE IF huggingface_client
    THEN huggingface_analyze(huggingface_client, out, data, query)
    ELSE Returned(_fallback_analysis(data, query))

NoAnalysis ==
    [called |-> FALSE, provider |-> "none", fail |-> "", content |-> "",
     data |-> None, query |-> "", ret |-> NoCall]

InitAnalyzerWith(avail) ==
    /\ groq_client \in avail
    /\ gemini_model \in avail
    /\ huggingface_client \in avail
    /\ alast = NoAnalysis

Analyze ==
    /\ \E data \in AnalysisData, query \in Queries, out \in ProviderOutcomes :
          alast' = [called |-> TRUE, provider |-> SelectedProvider,
                    fail |-> IF SelectedProvider = "none" THEN "" ELSE out.fail,
                    content |-> IF SelectedProvider = "none" THEN "" ELSE out.content,
                    data |-> Some(data), query |-> query,
                    ret |-> analyze(out, data, query)]
    /\ UNCHANGED <<groq_client, gemini_model, huggingface_client>>
    /\ UNCHANGED exceptRA

----------------------------------------------------------------------------
(* ResearchAgent (src/src/autonomous_agent/agents/research_agent.py) *)

\* A text is the sequence of its characters
Words ==
    { <<"C", "o", "d", "e">>,
      <<"d", "e", "c", "o", "d", "e">>,
      <<"W", "H", "Y">>,
      <<"s", "h", "o", "w">>,
      <<"Q", "u", "i", "c", "k">>,
      <<"s", "t", "o", "r", "y">>,
      <<"c", "a", "t", "s">>,
      <<"I", "m", "a", "g", "i", "n", "e">> }

\* The queries: up to MaxWords words, separated by a space
RECURSIVE QueriesOf(_)
QueriesOf(n) ==
    IF n = 1 THEN Words
    ELSE QueriesOf(n - 1) \cup
         { q \o <<" ">> \o w : q \in QueriesOf(n - 1), w \in Words }

AgentQueries == QueriesOf(MaxWords)

\* str.lower(), on the letters of the words
LowerChar(c) ==
    CASE c = "C" -> "c" [] c = "W" -> "w" [] c = "H" -> "h" [] c = "Y" -> "y"
      [] c = "Q" -> "q" [] c = "I" -> "i" [] OTHER -> c

lower(text) == [i \in DOMAIN text |-> LowerChar(text[i])]

\* keyword in text
In(keyword, text) ==
    \E i \in 1..(Len(text) - Len(keyword) + 1) :
        SubSeq(text, i, i + Len(keyword) - 1) = keyword

code_keywords ==
    { <<"c", "o", "d", "e">>,
      <<"p", "r", "o", "g", "r", "a", "m">>,
      <<"f", "u", "n", "c", "t", "i", "o", "n">>,
      <<"d", "e", "b", "u", "g">> }

reasoning_keywords ==
    { <<"e", "x", "p", "l", "a", "i", "n">>,
      <<"w", "h", "y">>,
      <<"h", "o", "w">>,
      <<"r", "e", "a", "s", "o", "n">> }

fast_keywords ==
    { <<"q", "u", "i", "c", "k">>, <<"s", "i", "m", "p", "l", "e">>, <<"b", "r", "i", "e", "f">> }

creative_keywords ==
    { <<"s", "t", "o", "r", "y">>,
      <<"c", "r", "e", "a", "t", "i", "v", "e">>,
      <<"i", "m", "a", "g", "i", "n", "e">> }

\* Variant: the reasoning keywords are tested before the code keywords
_analyze_query_type_reasoning_first(query) ==
    LET query_lower == lower(query)
    IN  IF \E keyword \in reasoning_keywords : In(keyword, query_lower) THEN "reasoning"
        ELSE IF \E keyword \in code_keywords : In(keyword, query_lower) THEN "code"
        ELSE IF \E keyword \in fast_keywords : In(keyword, query_lower) THEN "fast"
        ELSE IF \E keyword \in creative_keywords : In(keyword, query_lower)
        THEN "creative"
        ELSE "general"

\* ResearchAgent._analyze_query_type
_analyze_query_type(query) ==
    LET query_lower == lower(query)
    IN  IF \E keyword \in code_keywords : In(keyword, query_lower) THEN "code"
        ELSE IF \E keyword \in reasoning_keywords : In(keyword, query_lower)
        THEN "reasoning"
        ELSE IF \E keyword \in fast_keywords : In(keyword, query_lower) THEN "fast"
        ELSE IF \E keyword \in creative_keywords : In(keyword, query_lower)
        THEN "creative"
        ELSE "general"

NoQuery == [query |-> <<>>, type |-> "none"]

NoStatistics == [called |-> FALSE, history |-> <<>>, ret |-> None]

Ratings == 1..5

FeedbackQueries == {"q1"}

\* The record add_feedback builds (response and timestamp play no part)
Feedback(query, rating, comments) ==
    [query |-> query, rating |-> rating, comments |-> comments]

\* ResearchAgent.add_feedback: the record is appended before _save_feedback
\* writes it, so the history is the same whether the write raises or not
add_feedback(history, query, rating, comments) ==
    Append(history, Feedback(query, rating, comments))

RECURSIVE sum(_)
sum(ratings) ==
    IF ratings = <<>> THEN 0 ELSE Head(ratings) + sum(Tail(ratings))

\* list.count
count(ratings, i) == Cardinality({k \in DOMAIN ratings : ratings[k] = i})

\* sum(ratings) / len(ratings), kept as the exact quotient
Quotient(n, d) == [num |-> n, den |-> d]

\* {str(i): ratings.count(i) for i in range(1, 6)}
rating_distribution(ratings) ==
    [k \in {ToString(i) : i \in Ratings} |->
        count(ratings, CHOOSE i \in Ratings : ToString(i) = k)]

\* ResearchAgent.get_statistics; a key the returned dict lacks is None
get_statistics(history) ==
    IF history = <<>>
    THEN [total_interactions |-> 0, average_rating |-> Quotient(0, 1),
          rating_distribution |-> None]
    ELSE LET ratings == [k \in DOMAIN history |-> history[k].rating]
         IN  [total_interactions |-> Len(history),
              average_rating |-> Quotient(sum(ratings), Len(ratings)),
              rating_distribution |-> Some(rating_distribution(ratings))]

InitAgent ==
    /\ feedback_history = <<>>
    /\ slast = NoStatistics
    /\ qlast = NoQuery

InitClassify ==
    /\ feedback_history = <<>>
    /\ slast = NoStatistics
    /\ \E query \in AgentQueries : qlast = [query |-> query, type |-> "none"]

AnalyzeQueryType ==
    /\ qlast.type = "none"
    /\ qlast' = [qlast EXCEPT !.type = _analyze_query_type(qlast.query)]
    /\ UNCHANGED <<feedback_history, slast>>
    /\ UNCHANGED exceptAG

AddFeedback ==
    /\ Len(feedback_history) < MaxFeedback
    /\ \E query \in FeedbackQueries, rating \in Ratings, comments \in {None} :
          feedback_history' = add_feedback(feedback_history, query, rating, comments)
    /\ UNCHANGED <<slast, qlast>>
    /\ UNCHANGED exceptAG

GetStatistics ==
    /\ slast' = [called |-> TRUE, history |-> feedback_history,
                 ret |-> Some(get_statistics(feedback_history))]
    /\ UNCHANGED <<feedback_history, qlast>>
    /\ UNCHANGED exceptAG

----------------------------------------------------------------------------
(* ObservabilityManager and PerformanceMonitor (src/src/observability.py) *)

Operations == {"op1", "op2"}

Exceptions == {"ValueError"}

\* f"{operation}_{int(time.time() * 1000)}"
TraceId(operation, ms) == operation \o "_" \o ToString(ms)

\* AgentTrace(trace_id, operation, start_time): status running, no error
AgentTrace(trace_id, operation, ms) ==
    [trace_id |-> trace_id, operation |-> operation, start_time |-> ms,
     end_time |-> None, status |-> "running", error |-> None]

\* ObservabilityManager.start_trace
start_trace(ts, operation, ms) ==
    Append(ts, AgentTrace(TraceId(operation, ms), operation, ms))

\* ObservabilityManager.end_trace: the first trace with the id is ended
end_trace(ts, trace_id, status, error, ms) ==
    LET hits == {k \in DOMAIN ts : ts[k].trace_id = trace_id}
    IN  IF hits = {} THEN ts
        ELSE LET k == CHOOSE h \in hits : \A j \in hits : h <= j
             IN  [ts EXCEPT ![k].end_time = Some(ms),
                            ![k].status = status,
                            ![k].error = error]

\* ObservabilityManager.record_metric(MetricType.LATENCY, ...)
record_metric(ms, operation) ==
    Append(ms, [metric_type |-> "latency", operation |-> operation])

\* ObservabilityManager.record_error
record_error(es, error_type, operation) ==
    Append(es, [error_type |-> error_type, operation |-> operation])

InitObservability ==
    /\ traces = <<>>
    /\ metrics = <<>>
    /\ errors = <<>>
    /\ monitors = <<>>
    /\ clock = 0
    /\ exits = <<>>

\* PerformanceMonitor.__enter__
Enter ==
    /\ Len(traces) < MaxTraces
    /\ \E operation \in Operations :
          /\ traces' = start_trace(traces, operation, clock)
          /\ monitors' = Append(monitors,
                                [operation |-> operation,
                                 trace_id |-> TraceId(operation, clock),
                                 own |-> Len(traces) + 1])
    /\ UNCHANGED <<metrics, errors, clock, exits>>
    /\ UNCHANGED exceptOB

\* PerformanceMonitor.__exit__ of the innermost block, exc_type is None
ExitNormal ==
    /\ monitors # <<>>
    /\ LET self == monitors[Len(monitors)]
       IN  /\ traces' = end_trace(traces, self.trace_id, "success", None, clock)
           /\ metrics' = record_metric(metrics, self.operation)
           /\ exits' = Append(exits, [own |-> self.own, how |-> "normal",
                                      suppressed |-> FALSE])
    /\ monitors' = SubSeq(monitors, 1, Len(monitors) - 1)
    /\ UNCHANGED <<errors, clock>>
    /\ UNCHANGED exceptOB

\* PerformanceMonitor.__exit__ of the innermost block with an exception;
\* it returns False, so the exception is not suppressed
ExitError ==
    /\ monitors # <<>>
    /\ \E exc_type \in Exceptions :
          LET self == monitors[Len(monitors)]
          IN  /\ traces' = end_trace(traces, self.trace_id, "error",
                                     Some(exc_type), clock)
              /\ errors' = record_error(errors, exc_type, self.operation)
              /\ exits' = Append(exits, [own |-> self.own, how |-> "error",
                                         suppressed |-> FALSE])
    /\ monitors' = SubSeq(monitors, 1, Len(monitors) - 1)
    /\ UNCHANGED <<metrics, clock>>
    /\ UNCHANGED exceptOB

\* A millisecond passes
ClockTick ==
    /\ clock < MaxClock
    /\ clock' = clock + 1
    /\ UNCHANGED <<traces, metrics, errors, monitors, exits>>
    /\ UNCHANGED exceptOB

----------------------------------------------------------------------------
(* chunk_text (src/src/autonomous_agent/utils/text_utils.py) *)

\* A text is the sequence of its characters: a letter, a period, a newline
Alphabet == {"a", ".", "\n"}

ChunkTexts == UNION {[1..n -> Alphabet] : n \in 0..MaxText}

ChunkSizes == 1..MaxChunkSize

\* An index of a slice, as Python bounds it: counted from the end when
\* negative, and kept within the text
SliceIndex(i, n) ==
    IF i < 0 THEN (IF i + n < 0 THEN 0 ELSE i + n)
    ELSE IF i > n THEN n ELSE i

\* text[start:end]
Slice(text, start, end) ==
    LET s == SliceIndex(start, Len(text))
        e == SliceIndex(end, Len(text))
    IN  IF e <= s THEN <<>> ELSE SubSeq(text, s + 1, e)

\* str.rfind: the last position (from 0) of the character, -1 if absent
rfind(text, ch) ==
    LET hits == {k \in DOMAIN text : text[k] = ch}
    IN  IF hits = {} THEN -1
        ELSE (CHOOSE h \in hits : \A j \in hits : j <= h) - 1

\* str.strip: the white space at both ends is dropped
RECURSIVE strip(_)
strip(text) ==
    IF text = <<>> THEN text
    ELSE IF Head(text) = "\n" THEN strip(Tail(text))
    ELSE IF text[Len(text)] = "\n" THEN strip(SubSeq(text, 1, Len(text) - 1))
    ELSE text

\* One pass through the while loop of chunk_text: the chunk appended and
\* the next start
chunk_step(text, size, lap, start) ==
    LET whole == start + size
        break_point ==
            LET c == Slice(text, start, whole)
                last_period == rfind(c, ".")
                last_newline == rfind(c, "\n")
            IN  IF last_period > last_newline THEN last_period ELSE last_newline
        end == IF whole < Len(text) /\ 2 * break_point > size
               THEN start + break_point + 1
               ELSE whole
    IN  [chunk |-> strip(Slice(text, start, end)), start |-> end - lap]

\* The loop is cut off after more passes than any run that ends can make
ChunkCap == MaxText + MaxChunkSize

InitChunkIdle ==
    /\ ctext = <<>>
    /\ chunk_size = 1
    /\ overlap = 0
    /\ cstart = 0
    /\ chunks = <<>>
    /\ cstarts = {}
    /\ cpc = "idle"

\* chunk_text is called with 0 <= overlap < chunk_size
InitChunkCall ==
    /\ ctext \in ChunkTexts
    /\ chunk_size \in ChunkSizes
    /\ overlap \in 0..(chunk_size - 1)
    /\ cstart = 0
    /\ chunks = <<>>
    /\ cstarts = {}
    /\ cpc = "call"

\* if len(text) <= chunk_size: return [text]; else the loop starts
ChunkCall ==
    /\ cpc = "call"
    /\ IF Len(ctext) <= chunk_size
       THEN chunks' = <<ctext>> /\ cpc' = "done"
       ELSE chunks' = <<>> /\ cpc' = "loop"
    /\ cstart' = 0
    /\ UNCHANGED <<ctext, chunk_size, overlap, cstarts>>
    /\ UNCHANGED exceptCT

ChunkIterate ==
    /\ cpc = "loop"
    /\ cstart < Len(ctext)
    /\ Len(chunks) < ChunkCap
    /\ LET step == chunk_step(ctext, chunk_size, overlap, cstart)
       IN  /\ chunks' = Append(chunks, step.chunk)
           /\ cstart' = step.start
    /\ cstarts' = cstarts \cup {cstart}
    /\ UNCHANGED <<ctext, chunk_size, overlap, cpc>>
    /\ UNCHANGED exceptCT

\* return chunks
ChunkReturn ==
    /\ cpc = "loop"
    /\ ~(cstart < Len(ctext))
    /\ cpc' = "done"
    /\ UNCHANGED <<ctext, chunk_size, overlap, cstart, chunks, cstarts>>
    /\ UNCHANGED exceptCT

----------------------------------------------------------------------------
(* Specifications *)

\* The workflow engine alone
Init ==
    /\ InitWorkflow
    /\ InitMMWith({})
    /\ configs = DefaultConfigs
    /\ InitCacheWith({1})
    /\ InitScraperWith({TRUE})
    /\ InitAnalyzerWith({FALSE})
    /\ InitAgent
    /\ InitObservability
    /\ InitChunkIdle

Next == Execute \/ Iterate \/ Return

Spec == Init /\ [][Next]_vars

\* The ModelManager called from two threads
InitMM ==
    /\ InitWorkflow
    /\ InitMMWith(Threads)
    /\ InitCacheWith({1})
    /\ InitScraperWith({TRUE})
    /\ InitAnalyzerWith({FALSE})
    /\ InitAgent
    /\ InitObservability
    /\ InitChunkIdle

NextMM ==
    \E t \in Threads :
        \/ RegisterModel(t)
        \/ SelectBestModel(t)
        \/ LoadModelCall(t)
        \/ GenerateCall(t)
        \/ GenCheck(t)
        \/ LoadCheck(t)
        \/ LoadDo(t)
        \/ LoadStore(t)
        \/ GenCall(t)
        \/ UnloadModelCall(t)
        \/ UnloadAllCall(t)
        \/ UnloadCheck(t)
        \/ UnloadDo(t)

SpecMM == InitMM /\ [][NextMM]_vars

\* The ModelManager called from one thread
InitMMSeq ==
    /\ InitWorkflow
    /\ InitMMWith({"t1"})
    /\ InitCacheWith({1})
    /\ InitScraperWith({TRUE})
    /\ InitAnalyzerWith({FALSE})
    /\ InitAgent
    /\ InitObservability
    /\ InitChunkIdle

SpecMMSeq == InitMMSeq /\ [][NextMM]_vars

\* The CacheManager and the clock
InitCache ==
    /\ InitWorkflow
    /\ InitMMWith({})
    /\ configs = DefaultConfigs
    /\ InitCacheWith(TTLs)
    /\ InitScraperWith({TRUE})
    /\ InitAnalyzerWith({FALSE})
    /\ InitAgent
    /\ InitObservability
    /\ InitChunkIdle

NextCache == CacheGet \/ CacheSet \/ CacheClear \/ CacheGetStats \/ Tick

SpecCache == InitCache /\ [][NextCache]_vars

\* The DataScraper, with and without the web search module
InitScrape ==
    /\ InitWorkflow
    /\ InitMMWith({})
    /\ configs = DefaultConfigs
    /\ InitCacheWith({1})
    /\ InitScraperWith(BOOLEAN)
    /\ InitAnalyzerWith({FALSE})
    /\ InitAgent
    /\ InitObservability
    /\ InitChunkIdle

NextScrape ==
    \/ ScrapeAll
    \/ ScrapeArxiv
    \/ ScrapeGitHub
    \/ ScrapeWebTools
    \/ ScrapeHackerNews
    \/ ScrapeDevTo
    \/ ScrapeRSS
    \/ ScrapeReddit
    \/ ScrapeWebTrends
    \/ ScrapeWebGeneral

SpecScrape == InitScrape /\ [][NextScrape]_vars

\* The ResearchAnalyzer, with every combination of providers available
InitAnalyze ==
    /\ InitWorkflow
    /\ InitMMWith({})
    /\ configs = DefaultConfigs
    /\ InitCacheWith({1})
    /\ InitScraperWith({TRUE})
    /\ InitAnalyzerWith(BOOLEAN)
    /\ InitAgent
    /\ InitObservability
    /\ InitChunkIdle

NextAnalyze == Analyze

SpecAnalyze == InitAnalyze /\ [][NextAnalyze]_vars

InitBound ==
    /\ InitWorkflow
    /\ InitMMWith({})
    /\ configs = DefaultConfigs
    /\ InitCacheWith({1})
    /\ InitScraperWith({TRUE})
    /\ InitAnalyzerWith({FALSE})
    /\ InitAgent
    /\ InitObservability
    /\ InitChunkIdle

NextBound == ExecuteBound \/ IterateBound \/ Return

\* execute runs its loop to the end once it is called
SpecBound ==
    InitBound /\ [][NextBound]_vars /\ WF_vars(IterateBound) /\ WF_vars(Return)

InitObs ==
    /\ InitWorkflow
    /\ InitMMWith({})
    /\ configs = DefaultConfigs
    /\ InitCacheWith({1})
    /\ InitScraperWith({TRUE})
    /\ InitAnalyzerWith({FALSE})
    /\ InitAgent
    /\ InitObservability
    /\ InitChunkIdle

NextObs == Enter \/ ExitNormal \/ ExitError \/ ClockTick

SpecObs == InitObs /\ [][NextObs]_vars

InitChunk ==
    /\ InitWorkflow
    /\ InitMMWith({})
    /\ configs = DefaultConfigs
    /\ InitCacheWith({1})
    /\ InitScraperWith({TRUE})
    /\ InitAnalyzerWith({FALSE})
    /\ InitAgent
    /\ InitObservability
    /\ InitChunkCall

NextChunk == ChunkCall \/ ChunkIterate \/ ChunkReturn

SpecChunk == InitChunk /\ [][NextChunk]_vars

InitFeedback ==
    /\ InitWorkflow
    /\ InitMMWith({})
    /\ configs = DefaultConfigs
    /\ InitCacheWith({1})
    /\ InitScraperWith({TRUE})
    /\ InitAnalyzerWith({FALSE})
    /\ InitAgent
    /\ InitObservability
    /\ InitChunkIdle

NextFeedback == AddFeedback \/ GetStatistics

SpecFeedback == InitFeedback /\ [][NextFeedback]_vars

InitQuery ==
    /\ InitWorkflow
    /\ InitMMWith({})
    /\ configs = DefaultConfigs
    /\ InitCacheWith({1})
    /\ InitScraperWith({TRUE})
    /\ InitAnalyzerWith({FALSE})
    /\ InitClassify
    /\ InitObservability
    /\ InitChunkIdle

NextQuery == AnalyzeQueryType

SpecQuery == InitQuery /\ [][NextQuery]_vars

----------------------------------------------------------------------------
(* Properties of ResearchWorkflow.execute *)

IsRaise(e) == e.kind \in {"transition_raised", "checkpoint_raised"}

RefinementCount(s) == MetadataGet(s.metadata.refinement_count, 0)

AllEmpty(d) == \A p \in d : p[2] = 0

NumStages == Cardinality(DOMAIN transitions)

\* C1: when a stage transition, or the checkpoint write after it, raises, the
\* exception stays inside execute: its message is appended to state.errors,
\* the stage becomes failed, and no transition runs after that in the run.
C1_ExceptionsCaught ==
    /\ [][ (ntrans' = ntrans + 1 /\ IsRaise(lastEvent')) =>
              /\ wpc' # "escaped"
              /\ state'.errors = Append(state.errors, lastEvent'.msg)
              /\ state'.current_stage = FAILED ]_vars
    /\ [][ (state.current_stage = FAILED /\ run' = run) =>
              (ntrans' = ntrans /\ state' = state) ]_vars

\* C1 witness: a checkpoint write raised and execute returned the failed state
C1_Witness ==
    /\ wpc = "returned"
    /\ lastEvent.kind = "checkpoint_raised"
    /\ state.current_stage = FAILED
    /\ state.errors = <<lastEvent.msg>>

\* C2: whatever the collaborators do, execute runs at most 2 x (number of
\* stages) transitions, always has a next step while it is in the loop, and
\* returns only in stage complete or failed.
C2_BoundedTermination ==
    /\ ntrans <= 2 * NumStages
    /\ (wpc = "loop" => ENABLED (Iterate \/ Return))
    /\ (wpc = "returned" => state.current_stage \in Terminal)
    /\ wpc # "escaped"

\* C2 witness: the longest run, two full passes, has returned complete
C2_Witness ==
    /\ wpc = "returned"
    /\ state.current_stage = COMPLETE
    /\ ntrans = 2 * NumStages - 1

\* C3 (as claimed): the evaluating step goes to planning, incrementing
\* refinement_count, exactly when quality_score < 0.7 (0 included) and
\* refinement_count < 1, and to complete in every other case.
C3_RefineDecision ==
    [][ (/\ wpc = "loop"
         /\ state.current_stage = EVALUATING
         /\ state'.current_stage \in {PLANNING, COMPLETE}) =>
           IF /\ TheValue(state.quality_score) < min_quality
              /\ RefinementCount(state) < max_refinements
           THEN /\ state'.current_stage = PLANNING
                /\ RefinementCount(state') = RefinementCount(state) + 1
           ELSE state'.current_stage = COMPLETE ]_vars

\* C4: in one run the step evaluating -> planning is taken at most once:
\* refinement_count is 0 or 1 and every loop-back taken was counted in it.
C4_SingleRefinement ==
    /\ RefinementCount(state) \in {0, 1}
    /\ loopbacks <= RefinementCount(state)

\* C4 witness: a second evaluation still below 0.7 went to complete
C4_Witness ==
    /\ state.current_stage = COMPLETE
    /\ loopbacks = 1
    /\ state.quality_score = Some(50)

\* C5 (as claimed): after every loop iteration, failed ones included, the
\* checkpoint file of the state's stage holds a snapshot of the state; a run
\* that returns failed has a checkpoint with stage failed and errors.
C5_CheckpointAfterEveryTransition ==
    (wpc \in {"loop", "returned"} /\ lastEvent.kind # "none") =>
        /\ files[CheckpointPath(state)].status = "valid"
        /\ files[CheckpointPath(state)].content = Some(to_dict(state))
        /\ (state.current_stage = FAILED => state.errors # <<>>)

\* C6 (as claimed): once collection has stored an all-empty result set, the
\* run is in collecting or has failed with a "no data found" error; the
\* analyzer is not called.
C6_NoDataFails ==
    (state.metadata.data_stats # None /\ AllEmpty(state.data)) =>
        /\ state.current_stage \in {COLLECTING, FAILED}
        /\ (state.current_stage = FAILED /\ lastEvent.from = COLLECTING =>
               state.errors = <<"no data found for query">>)

\* C7: the returned state is never falsely successful: complete means no
\* errors and data, analysis, report and quality_score all assigned by their
\* stages; failed means errors is not empty.
C7_NoFalseSuccess ==
    wpc = "returned" =>
        /\ (state.current_stage = COMPLETE =>
               /\ state.errors = <<>>
               /\ state.data \in DataValues
               /\ state.metadata.data_stats # None
               /\ state.analysis # None
               /\ state.report # None
               /\ state.quality_score # None)
        /\ (state.current_stage = FAILED => state.errors # <<>>)

\* C7 witness: a run returned complete on its first pass
C7_Witness ==
    /\ wpc = "returned"
    /\ state.current_stage = COMPLETE
    /\ loopbacks = 0
    /\ state.report # None

\* C8 (as claimed): a checkpoint file, once written, is never written again,
\* neither later in the same run nor by another run.
C8_CheckpointsWriteOnce ==
    [][ \A p \in Paths :
           files[p].status # "absent" => files'[p] = files[p] ]_vars

----------------------------------------------------------------------------
(* Properties of ModelManager *)

\* Threads that hold a constructed and loaded backend for n not yet stored
Holding(n) == {t \in callers : th[t].pc = "load_store" /\ th[t].name = n}

\* C9 (as claimed): concurrent generate or load_model requests for one name
\* perform at most one load: at no time do two loaded backend instances of
\* a name exist, stored in the loaded map or about to be stored.
C9_AtMostOneLoad ==
    \A n \in Names :
        Cardinality(Holding(n)) + (IF n \in Loaded(models) THEN 1 ELSE 0) <= 1

\* C10: a backend is constructed only inside load_model, run by a load_model
\* or generate call for a name that is not loaded (never by registration);
\* generate reaches the backend only with the name loaded; a loaded instance
\* leaves the loaded map or changes only in an unload_model/unload_all call.
C10_BackendLifecycle ==
    /\ [](\A t \in callers :
            /\ (th[t].pc = "gen_call" => th[t].name \in Loaded(models))
            /\ (th[t].op = "generate" /\ th[t].pc = "idle" =>
                   /\ th[t].result # "KeyError"
                   /\ (th[t].result \in {"text", "generate failed"} =>
                          th[t].name \in Loaded(models))))
    /\ [][ \A n \in Names :
             created'[n] # created[n] =>
                \E t \in callers :
                   /\ th[t].op \in {"load_model", "generate"}
                   /\ th[t].pc = "load_do"
                   /\ th[t].name = n
                   /\ n \notin Loaded(models) ]_vars
    /\ [][ \A n \in Names :
             (n \in Loaded(models) /\ models'[n] # models[n]) =>
                \E t \in callers :
                   /\ th[t].op \in {"unload_model", "unload_all"}
                   /\ th[t].pc = "unload_do"
                   /\ th[t].name = n ]_vars
    /\ [][ \A n \in Names :
             (n \notin Loaded(models) /\ n \in Loaded(models')) =>
                \E t \in callers :
                   /\ th[t].op \in {"load_model", "generate"}
                   /\ th[t].pc = "load_store"
                   /\ models'[n] = th[t].inst ]_vars

\* C10 witness: the first call was a generate on a name not loaded before; it
\* loaded the backend, the backend call failed, and the instance is still loaded
C10_Witness ==
    /\ calls = 1
    /\ th["t1"].op = "generate"
    /\ th["t1"].pc = "idle"
    /\ th["t1"].result = "generate failed"
    /\ th["t1"].name \in Loaded(models)
    /\ created[th["t1"].name] = 1

\* C11 (as claimed): a generate call without a model name uses a registered
\* model whenever at least one model is registered.
C11_OmittedNameIsRegistered ==
    \A t \in callers :
        (th[t].op = "generate" /\ th[t].arg = "None" /\ Registered(configs) # {}) =>
            th[t].name \in Registered(configs)

\* C11 (amended): a generate call without a model name uses the configured
\* default model, whatever is registered: it reaches the backend only when
\* the default is registered and ends in ValueError when it is not.
C11_OmittedNameIsDefault ==
    \A t \in callers :
        (th[t].op = "generate" /\ th[t].arg = "None") =>
            /\ th[t].name = default_model
            /\ (th[t].pc = "idle" /\ default_model \notin Registered(configs) =>
                   th[t].result = "ValueError: not found")
            /\ (th[t].result \in {"text", "generate failed"} =>
                   default_model \in Registered(configs))

\* C11 witness: a model is registered, the default is not, and generate
\* without a model name ended in ValueError
C11_Witness ==
    /\ th["t1"].op = "generate"
    /\ th["t1"].arg = "None"
    /\ th["t1"].pc = "idle"
    /\ th["t1"].result = "ValueError: not found"
    /\ Registered(configs) # {}

\* C12 (as claimed): select_best_model returns a registered model name for
\* every task type and every set of registered names.
C12_ReturnsRegistered ==
    \A t \in callers :
        th[t].op = "select_best_model" => th[t].result \in Registered(configs)

\* The table of the claim: code->llama, reasoning->llama, general->mistral,
\* fast->phi, creative->mistral
C12_Table ==
    [code |-> "llama", reasoning |-> "llama", general |-> "mistral",
     fast |-> "phi", creative |-> "mistral"]

\* C12 (amended): with a non-empty registry select_best_model returns a
\* registered name, the table's choice when that is registered and otherwise
\* the first registered name; with an empty registry it returns "llama".
C12_SelectBestModel ==
    \A t \in callers :
        th[t].op = "select_best_model" =>
            IF configs = <<>>
            THEN th[t].result = "llama"
            ELSE /\ th[t].result \in Registered(configs)
                 /\ th[t].name \in DOMAIN C12_Table =>
                       th[t].result =
                           IF C12_Table[th[t].name] \in Registered(configs)
                           THEN C12_Table[th[t].name]
                           ELSE configs[1].name

\* C12 witness: the table's choice for "fast" is not registered, two other
\* names are, and the first registered one was returned
C12_Witness ==
    /\ th["t1"].op = "select_best_model"
    /\ th["t1"].name = "fast"
    /\ "phi" \notin Registered(configs)
    /\ Len(configs) = 2
    /\ th["t1"].result = configs[1].name

\* C13: register_model on a name whose backend is loaded replaces only the
\* stored descriptor of that name: the loaded map, the loaded instance and
\* the descriptor it was built from stay as they were. A loaded instance is
\* replaced only after an unload, and an instance that enters the loaded map
\* was built from the descriptor stored at that time.
C13_RegisterWhileLoaded ==
    [][ /\ \A t \in callers :
              (calls' = calls + 1 /\ th'[t].op = "register_model"
                                  /\ th'[t].name \in Loaded(models)) =>
                  /\ models' = models
                  /\ created' = created
                  /\ Registered(configs') = Registered(configs)
                  /\ \A m \in Registered(configs) \ {th'[t].name} :
                        ConfigOf(configs', m) = ConfigOf(configs, m)
        /\ \A n \in Names :
              models'[n] # models[n] =>
                  IF n \in Loaded(models)
                  THEN models'[n] = None
                  ELSE TheValue(models'[n]).config = ConfigOf(configs, n) ]_vars

\* C13 witness: a name was loaded, re-registered with another descriptor,
\* unloaded and loaded again; the instance now holds the new descriptor
C13_Witness ==
    /\ th["t1"].op \in {"load_model", "generate"}
    /\ created["llama"] = 2
    /\ "llama" \in Loaded(models)
    /\ TheValue(models["llama"]).config = ConfigOf(configs, "llama")
    /\ TheValue(models["llama"]).config # Descriptor("ollama")

\* C13 witness of the first half: the loaded instance still holds the
\* descriptor it was built from after register_model stored another one
C13_StaleDescriptor ==
    /\ th["t1"].op = "register_model"
    /\ "llama" \in Loaded(models)
    /\ TheValue(models["llama"]).config # ConfigOf(configs, "llama")

\* C14: unload_model(name) on a name that is not loaded raises nothing and
\* leaves the registry and the loaded map as they were; a finished
\* unload_model(name) leaves the name not loaded, so a second call is such a
\* call and has no further effect.
C14_UnloadIdempotent ==
    /\ [](\A t \in callers :
             (th[t].op = "unload_model" /\ th[t].pc = "idle") =>
                 /\ th[t].result = "ok"
                 /\ th[t].name \notin Loaded(models))
    /\ [][ \A t \in callers :
              /\ (calls' = calls + 1 /\ th'[t].op = "unload_model") =>
                     (configs' = configs /\ models' = models)
              /\ (th[t].op = "unload_model" /\ th[t].pc # "idle") =>
                     /\ configs' = configs
                     /\ th[t].name \notin Loaded(models) =>
                           /\ models' = models
                           /\ th'[t].pc = "idle"
                           /\ th'[t].result = "ok" ]_vars

\* C14 witness: unload_model returned for a name that is neither registered
\* nor loaded
C14_Witness ==
    /\ th["t1"].op = "unload_model"
    /\ th["t1"].pc = "idle"
    /\ th["t1"].result = "ok"
    /\ th["t1"].name \notin Registered(configs)
    /\ created[th["t1"].name] = 0

\* C15: a get(k) made after set(k, v), with no set(k, .) or clear in between,
\* returns v while the entry's age is below the time-to-live and returns
\* absent once the age exceeds it.
C15_RoundTrip ==
    (cret.op = "get" /\ cret.since # None) =>
        LET s == TheValue(cret.since)
            age == cret.at - s.at
        IN  /\ age < ttl => cret.value = Some(s.value)
            /\ age > ttl => cret.value = None

\* An entry of the directory that get would treat as expired
ExpiredFile(dir, f) ==
    /\ dir[f] # None
    /\ TheValue(dir[f]).valid
    /\ Expired(TheValue(dir[f]), now, ttl)

\* C16: get(k) on an expired entry deletes it and returns absent; get(k) on
\* any other entry leaves it; get and set on another key, get_stats and the
\* passing of time leave an entry as it is; get_stats counts the expired
\* entries.
C16_LazyEviction ==
    [][ /\ \A k \in Keys :
              LET f == _get_cache_key(k)
                  called(ops) == nops' = nops + 1 /\ cret'.op \in ops
              IN  /\ (called({"get"}) /\ cret'.key = k /\ ExpiredFile(cache_dir, f)) =>
                         (cache_dir'[f] = None /\ cret'.value = None)
                  /\ (called({"get"}) /\ cret'.key = k /\ ~ExpiredFile(cache_dir, f)) =>
                         cache_dir'[f] = cache_dir[f]
                  /\ (called({"get", "set"}) /\ cret'.key # k) =>
                         cache_dir'[f] = cache_dir[f]
        /\ (nops' = nops + 1 /\ cret'.op = "get_stats") =>
              /\ cache_dir' = cache_dir
              /\ TheValue(cret'.stats).expired_count =
                    Cardinality({f \in CacheFiles : ExpiredFile(cache_dir, f)})
        /\ nops' = nops => cache_dir' = cache_dir ]_vars

\* C16 witness: two entries have expired; get of the first has deleted it and
\* returned absent, the second is still in the directory
C16_Witness ==
    /\ cret.op = "get"
    /\ cret.key = "k1"
    /\ cret.value = None
    /\ cret.since # None
    /\ Serializable(TheValue(cret.since).value)
    /\ cret.at - TheValue(cret.since).at > ttl
    /\ cache_dir[_get_cache_key("k1")] = None
    /\ ExpiredFile(cache_dir, _get_cache_key("k2"))

\* C17: in every result set scrape_all returns, for every focus and depth,
\* no two items of web_results have the same url.
C17_NoDuplicateUrls ==
    spc = "returned" =>
        \A i, j \in DOMAIN results.web_results :
            i # j => results.web_results[i] # results.web_results[j]

\* C18: for every depth of the table and every focus, the number of items
\* scrape_all returns in a category is at most the depth's limit for it.
C18_Budgets ==
    (spc = "returned" /\ sreq.depth \in DOMAIN limits) =>
        /\ Len(results.papers) <= limits[sreq.depth].papers
        /\ Len(results.repositories) <= limits[sreq.depth].repos
        /\ Len(results.news) <= limits[sreq.depth].news
        /\ Len(results.web_results) <= limits[sreq.depth].web

\* The urls of a sequence of items
UrlsOf(seq) == {seq[i] : i \in DOMAIN seq}

\* C19: scrape_all never raises, whichever adapters fail; an adapter whose
\* request fails adds no item to any category, and the call goes on to the
\* next adapter or returns.
C19_FailuresContained ==
    /\ [](spc # "raised")
    /\ [][ \A a \in failed' \ failed :
              /\ \A c \in DOMAIN results :
                    /\ UrlsOf(results'[c]) = UrlsOf(results[c])
                    /\ Len(results'[c]) <= Len(results[c])
              /\ spc' = NextCalled(IndexOf(a), sreq, web_search) ]_vars

\* C19 witness: every adapter was called, every request failed, and
\* scrape_all returned five empty categories
C19_Witness ==
    /\ spc = "returned"
    /\ failed = {Adapters[i] : i \in DOMAIN Adapters}
    /\ results = NoResults

\* C20: analyze never raises on a backend failure: when no provider is
\* available, or the call of the selected provider raises, it returns the
\* fallback analysis, whose summary is not empty and whose key_findings are
\* the four per-category counts ("Found 0 academic papers", ... when the
\* data is empty).
C20_FallbackOnFailure ==
    alast.called =>
        /\ ~alast.ret.raised
        /\ (alast.provider = "none" \/ alast.fail # "") =>
              LET analysis == TheValue(alast.ret.value)
                  data == TheValue(alast.data)
              IN  /\ analysis = _fallback_analysis(data, alast.query)
                  /\ analysis.summary # ""
                  /\ Len(analysis.key_findings) = 4
                  /\ (\A c \in AnalysisCategories : data[c] = <<>>) =>
                        analysis.key_findings =
                            <<"Found 0 academic papers",
                              "Found 0 GitHub repositories",
                              "Found 0 news articles",
                              "Found 0 discussions">>
                  /\ \E f \in DOMAIN analysis.key_findings :
                        analysis.key_findings[f] =
                            "Found " \o ToString(Len(data["papers"])) \o " academic papers"

\* C20 witness: the selected provider's call timed out on empty data and the
\* fallback analysis with the zero counts was returned
C20_Witness ==
    /\ alast.called
    /\ alast.provider = "groq"
    /\ alast.fail = "timeout"
    /\ ~alast.ret.raised
    /\ TheValue(alast.ret.value).key_findings[1] = "Found 0 academic papers"

\* The five fields of the structured analysis
AnalysisFields == {"key_findings", "trends", "notable_items", "recommendations", "summary"}

\* C21: every value analyze returns has the five fields of the structured
\* shape, whatever the provider answered; an answer that is not of that shape
\* comes back as trends = the raw text and summary = its first 500
\* characters, with the three lists empty.
C21_StructuredShape ==
    (alast.called /\ ~alast.ret.raised) =>
        LET analysis == TheValue(alast.ret.value)
        IN  /\ DOMAIN analysis = AnalysisFields
            /\ (alast.provider # "none" /\ alast.fail = ""
                    /\ alast.content # JsonText) =>
                  analysis = [key_findings |-> <<>>, trends |-> alast.content,
                              notable_items |-> <<>>, recommendations |-> <<>>,
                              summary |-> First500(alast.content)]

\* The category an adapter's items go to
CategoryOf(a) ==
    CASE a = "arxiv" -> "papers"
      [] a = "github" -> "repositories"
      [] a \in {"hackernews", "devto", "rss"} -> "news"
      [] a = "reddit" -> "discussions"
      [] OTHER -> "web_results"

\* C22: the result of scrape_all has the five category keys, each mapped to
\* a sequence; a category none of whose adapters was called, or whose
\* adapters all failed, is present and empty.
C22_AllCategoriesPresent ==
    spc = "returned" =>
        /\ DOMAIN results =
              {"papers", "repositories", "news", "discussions", "web_results"}
        /\ \A c \in DOMAIN results :
              /\ results[c] \in Seq(Nat)
              /\ (\A a \in invoked : CategoryOf(a) = c => a \in failed) =>
                    results[c] = <<>>

\* C22 witness: only the arXiv adapter was called and gave papers; the four
\* other categories are present and empty
C22_Witness ==
    /\ spc = "returned"
    /\ sreq.focus = "papers"
    /\ results.papers # <<>>
    /\ \A c \in DOMAIN results \ {"papers"} : results[c] = <<>>

SourceAdapters == {"arxiv", "github", "hackernews", "devto", "rss", "reddit"}

WebAdapters == {"web_tools", "web_trends", "web_general"}

\* The source adapters the claim gives each focus
SourcesOf(focus) ==
    CASE focus = "papers" -> {"arxiv"}
      [] focus = "tools" -> {"github"}
      [] focus = "trends" -> {"hackernews", "devto", "rss", "reddit"}
      [] focus = "all" -> SourceAdapters
      [] OTHER -> {}

\* C23 (as claimed): the focus alone determines the source adapters that
\* run, and a web search is made whenever focus = all or depth = deep and a
\* web searcher is available.
C23_SelectionByFocus ==
    spc = "returned" =>
        /\ invoked \cap SourceAdapters = SourcesOf(sreq.focus)
        /\ (web_search /\ (sreq.focus = "all" \/ sreq.depth = "deep")) =>
              invoked \cap WebAdapters # {}

\* C23 (amended): the focus alone determines the source adapters that run;
\* the general web search runs exactly when depth = deep and a web searcher
\* is available, the tools and the trends web search exactly when their
\* focus is selected, the depth is standard or deep and a searcher is
\* available.
C23_SelectionByFocusAndDepth ==
    spc = "returned" =>
        /\ invoked \cap SourceAdapters = SourcesOf(sreq.focus)
        /\ "web_general" \in invoked <=> (web_search /\ sreq.depth = "deep")
        /\ "web_tools" \in invoked <=>
              (web_search /\ sreq.focus \in {"tools", "all"}
                          /\ sreq.depth \in {"standard", "deep"})
        /\ "web_trends" \in invoked <=>
              (web_search /\ sreq.focus \in {"trends", "all"}
                          /\ sreq.depth \in {"standard", "deep"})

\* C23 witness: focus all at depth quick with a web searcher: the six source
\* adapters ran and no web search was made
C23_Witness ==
    /\ spc = "returned"
    /\ web_search
    /\ sreq = [focus |-> "all", depth |-> "quick"]
    /\ invoked = SourceAdapters

----------------------------------------------------------------------------
(* Loaded and registered models *)

\* How load_model, alone or inside generate, ends before generation
LoadFailures ==
    {"ValueError: not found", "ValueError: unsupported", "load failed"}

\* C29: in calls made one after the other, every loaded model name is a
\* registered name; every step a load_model or generate call takes before
\* its backend is stored leaves the loaded map as it was, and a call that
\* ends in a failure of the load has taken no other step
C29_LoadedAreRegistered ==
    /\ [](Loaded(models) \subseteq Registered(configs))
    /\ [][\A t \in callers :
             /\ (th'[t] # th[t] /\ th'[t].op \in {"load_model", "generate"}
                   /\ th[t].pc \in {"idle", "gen_check", "load_check", "load_do"})
                 => models' = models
             /\ (th[t].pc # "idle" /\ th'[t].pc = "idle"
                   /\ th'[t].op \in {"load_model", "generate"}
                   /\ th'[t].result \in LoadFailures)
                 => th[t].pc \in {"load_check", "load_do"}]_vars

\* A generate call has failed in the backend's load while another model
\* stays loaded
C29_Witness ==
    /\ th["t1"].op = "generate"
    /\ th["t1"].pc = "idle"
    /\ th["t1"].result = "load failed"
    /\ Loaded(models) # {}
    /\ th["t1"].name \notin Loaded(models)

----------------------------------------------------------------------------
(* Stage order of ResearchWorkflow.execute *)

StageOrder == <<PLANNING, COLLECTING, ANALYZING, SYNTHESIZING, EVALUATING>>

\* The steps of the stage the claim allows: into the first stage, from a
\* stage to the next, back from the last to the first, from the last to
\* complete, and from any stage that is not terminal to failed
AllowedSteps ==
    {<<INIT, PLANNING>>, <<EVALUATING, PLANNING>>, <<EVALUATING, COMPLETE>>}
    \cup {<<StageOrder[k], StageOrder[k + 1]>> : k \in 1..(Len(StageOrder) - 1)}
    \cup {<<stage, FAILED>> : stage \in WorkflowState \ Terminal}

ExternalFailure ==
    \/ lastEvent.kind = "checkpoint_raised"
    \/ /\ lastEvent.kind = "transition_raised"
       /\ lastEvent.msg \in {"collect_data failed", "analyze_data failed",
                              "generate_markdown_report failed",
                              "evaluate_research failed"}

\* C27: with the collaborators the repository defines, a run of execute
\* with a dict config in which no external call fails, the adapters return
\* data and the quality score is at least the threshold eventually reaches
\* stage complete with data, analysis, report and quality_score set
C27_EventuallyComplete ==
    [](/\ wpc = "loop"
       /\ state.current_stage = INIT
       /\ state.config = "dict"
       => <>(\/ ExternalFailure
             \/ /\ state.current_stage = COMPLETE
                /\ ~AllEmpty(state.data)
                /\ state.analysis # None
                /\ state.report # None
                /\ state.quality_score # None))

----------------------------------------------------------------------------
(* Properties of ResearchAgent *)

QueryClasses == <<"code", "reasoning", "fast", "creative">>

KeywordsOf(class) ==
    CASE class = "code" -> code_keywords
      [] class = "reasoning" -> reasoning_keywords
      [] class = "fast" -> fast_keywords
      [] class = "creative" -> creative_keywords

\* The classes one of whose keywords occurs in the query, letter case aside
Matched(query) ==
    {k \in DOMAIN QueryClasses :
        \E keyword \in KeywordsOf(QueryClasses[k]) : In(keyword, lower(query))}

\* C24: a classified query has the class of highest priority (code, then
\* reasoning, then fast, then creative) among the classes whose keywords it
\* contains, and the class general when it contains none
C24_PriorityOrder ==
    qlast.type # "none" =>
        IF Matched(qlast.query) = {}
        THEN qlast.type = "general"
        ELSE \E k \in Matched(qlast.query) :
                /\ \A j \in Matched(qlast.query) : k <= j
                /\ qlast.type = QueryClasses[k]

\* A query whose first word is a creative keyword and whose second is a
\* reasoning keyword in capitals has been classified as reasoning
C24_Witness ==
    /\ qlast.query = <<"s", "t", "o", "r", "y", " ", "W", "H", "Y">>
    /\ Matched(qlast.query) = {2, 4}
    /\ qlast.type = "reasoning"

RECURSIVE SumOver(_, _)
SumOver(f, S) ==
    IF S = {} THEN 0
    ELSE LET x == CHOOSE y \in S : TRUE IN f[x] + SumOver(f, S \ {x})

RatingsOf(history) == [k \in DOMAIN history |-> history[k].rating]

\* The feedback history only grows, at its end: no earlier record is changed
\* or removed
C25_AppendOnly ==
    [][/\ Len(feedback_history') >= Len(feedback_history)
       /\ SubSeq(feedback_history', 1, Len(feedback_history))
             = feedback_history]_vars

\* get_statistics after n >= 1 add_feedback calls reports n, the mean of the
\* recorded ratings and a histogram over 1..5 whose counts sum to n
C25_StatisticsOfNonEmpty ==
    (slast.called /\ slast.history # <<>>) =>
        LET n == Len(slast.history)
            ret == TheValue(slast.ret)
            h == TheValue(ret.rating_distribution)
        IN  /\ ret.total_interactions = n
            /\ ret.average_rating.num * n
                 = SumOver(RatingsOf(slast.history), 1..n) * ret.average_rating.den
            /\ ret.rating_distribution # None
            /\ DOMAIN h = {ToString(i) : i \in Ratings}
            /\ SumOver(h, DOMAIN h) = n

\* C25: get_statistics after n >= 0 add_feedback calls with ratings in 1..5
\* reports total_interactions = n, the mean of the recorded ratings (0 when
\* n = 0) and a histogram over 1..5 whose counts sum to n
C25_StatisticsConsistent ==
    slast.called =>
        LET n == Len(slast.history)
            ret == TheValue(slast.ret)
        IN  /\ ret.total_interactions = n
            /\ ret.average_rating.num * (IF n = 0 THEN 1 ELSE n)
                 = SumOver(RatingsOf(slast.history), 1..n) * ret.average_rating.den
            /\ ret.rating_distribution # None
            /\ LET h == TheValue(ret.rating_distribution)
               IN  /\ DOMAIN h = {ToString(i) : i \in Ratings}
                   /\ SumOver(h, DOMAIN h) = n

----------------------------------------------------------------------------
(* Properties of PerformanceMonitor *)

ExitsBy(how) == {k \in DOMAIN exits : exits[k].how = how}

\* C28: the own trace of every block that was left is no longer running;
\* the own trace of the block left last has status success after a normal
\* exit and error after an exception; one latency metric is recorded per
\* normal exit and one error per exception, and no exception is suppressed
C28_EveryTraceClosed ==
    /\ \A k \in DOMAIN exits :
          /\ traces[exits[k].own].status # "running"
          /\ ~exits[k].suppressed
    /\ exits # <<>> =>
          traces[exits[Len(exits)].own].status =
             (IF exits[Len(exits)].how = "normal" THEN "success" ELSE "error")
    /\ Len(metrics) = Cardinality(ExitsBy("normal"))
    /\ Len(errors) = Cardinality(ExitsBy("error"))

----------------------------------------------------------------------------
(* Properties of chunk_text *)

\* C30: called with 0 <= overlap < chunk_size, chunk_text returns, and no
\* chunk it has collected is longer than chunk_size.  The loop's passes
\* depend on start alone, so the call returns exactly if the loop never
\* begins a pass at a value of start at which it began one before.
C30_TerminatesWithBoundedChunks ==
    /\ (cpc = "loop" /\ cstart < Len(ctext)) => cstart \notin cstarts
    /\ \A k \in DOMAIN chunks : Len(chunks[k]) <= chunk_size

====
